---- MODULE Spec2Model ----
(***************************************************************************)
(* A model of the data-compactor crate: the three compaction engines       *)
(* (DataCompactor, EfficientCompactor, TrulyEfficientCompactor), their     *)
(* dictionaries, the columnar assembly and the reconstruction path.        *)
(*                                                                         *)
(* JSON values are records of one shape, strings are TLA+ strings (TLC     *)
(* evaluates Len, SubSeq and \o on them), a HashMap is a function and its  *)
(* iteration order is a nondeterministic choice of the action that         *)
(* iterates it.                                                            *)
(***************************************************************************)
EXTENDS Integers, Sequences, FiniteSets, TLC

(***************************************************************************)
(* Bounds of the model.                                                    *)
(***************************************************************************)
\* Longest subresources array of an input of the pipeline specification.
MaxRecords == 2

(***************************************************************************)
(* Strings.                                                                *)
(***************************************************************************)
Min(a, b) == IF a < b THEN a ELSE b

Range(q) == {q[i] : i \in DOMAIN q}

\* str::starts_with
StartsWith(s, p) == Len(s) >= Len(p) /\ SubSeq(s, 1, Len(p)) = p

\* str::find: the index of the first occurrence of p in s, 0 when there is
\* none.
Find(s, p) ==
    LET n == Len(s) - Len(p) + 1
        Hit(i) == SubSeq(s, i, i + Len(p) - 1) = p
    IN IF \E i \in 1..n : Hit(i)
       THEN CHOOSE i \in 1..n : Hit(i) /\ \A j \in 1..(i - 1) : ~Hit(j)
       ELSE 0

\* str::contains
Contains(s, p) ==
    \E i \in 1..(Len(s) - Len(p) + 1) : SubSeq(s, i, i + Len(p) - 1) = p

\* str::split: the pieces between the non-overlapping occurrences of sep, left to right.
RECURSIVE Split(_, _)
Split(s, sep) ==
    LET i == Find(s, sep)
    IN IF i = 0 THEN <<s>>
       ELSE <<SubSeq(s, 1, i - 1)>> \o Split(SubSeq(s, i + Len(sep), Len(s)), sep)

\* Iterator::last of a split, which is never empty.
LastOf(q) == q[Len(q)]

\* str::replace: every non-overlapping occurrence, left to right.
RECURSIVE Replace(_, _, _)
Replace(s, from, to) ==
    LET i == Find(s, from)
    IN IF i = 0 THEN s
       ELSE SubSeq(s, 1, i - 1) \o to
                \o Replace(SubSeq(s, i + Len(from), Len(s)), from, to)

\* chars().take(n).collect()
Take(s, n) == SubSeq(s, 1, Min(n, Len(s)))

\* All orders in which a HashMap holding the keys S can be iterated.
RECURSIVE Orders(_)
Orders(S) ==
    IF S = {} THEN {<<>>}
    ELSE UNION {{<<x>> \o q : q \in Orders(S \ {x})} : x \in S}

(***************************************************************************)
(* serde_json::Value.  One record shape for every variant: k is the        *)
(* variant, b the boolean, n the number (an i64 for "int", hundredths for  *)
(* "float"), s the string, a the elements of an array or the values of an  *)
(* object and ks the keys of an object in the order the map iterates them. *)
(***************************************************************************)
Null == [k |-> "null", b |-> FALSE, n |-> 0, s |-> "", ks |-> <<>>, a |-> <<>>]
Bool(x) == [Null EXCEPT !.k = "bool", !.b = x]
IntV(x) == [Null EXCEPT !.k = "int", !.n = x]
FloatV(h) == [Null EXCEPT !.k = "float", !.n = h]
Str(x) == [Null EXCEPT !.k = "str", !.s = x]
Arr(xs) == [Null EXCEPT !.k = "arr", !.a = xs]
Obj(keys, vals) == [Null EXCEPT !.k = "obj", !.ks = keys, !.a = vals]

\* Option<T>: of a value, of a string, of a number (a cell of a column).
None == [some |-> FALSE, v |-> Null]
Some(x) == [some |-> TRUE, v |-> x]
NoStr == [some |-> FALSE, v |-> ""]
NoNum == [some |-> FALSE, v |-> 0]
NoBool == [some |-> FALSE, v |-> FALSE]

\* HashMap<String, code> of a dictionary: the set of its entries <<key, code>>,
\* one for each key.  contains_key, get (of a key the map holds), insert.
MapKeys(m) == {e[1] : e \in m}
MapHas(m, key) == \E e \in m : e[1] = key
MapGet(m, key) == (CHOOSE e \in m : e[1] = key)[2]
MapInsert(m, key, code) == {e \in m : e[1] # key} \cup {<<key, code>>}

\* Map::contains_key
HasKey(obj, key) == \E i \in DOMAIN obj.ks : obj.ks[i] = key

\* Value::get(&str): None on a value that is not an object or lacks the key.
Get(v, key) ==
    IF v.k = "obj" /\ HasKey(v, key)
    THEN Some(v.a[CHOOSE i \in DOMAIN v.ks : v.ks[i] = key])
    ELSE None

\* A map as a function from its keys, forgetting the iteration order.
AsMap(obj) == [key \in Range(obj.ks) |-> Get(obj, key).v]

\* Value::as_str, as_i64, as_f64, as_bool on an Option<&Value> (and_then).
AsStr(o) == IF o.some /\ o.v.k = "str" THEN Some(o.v.s) ELSE NoStr
AsI64(o) == IF o.some /\ o.v.k = "int" THEN Some(o.v.n) ELSE NoNum
AsF64(o) ==
    IF o.some /\ o.v.k = "float" THEN Some(o.v.n)
    ELSE IF o.some /\ o.v.k = "int" THEN Some(o.v.n * 100)
    ELSE NoNum
AsBool(o) == IF o.some /\ o.v.k = "bool" THEN Some(o.v.b) ELSE NoBool

\* The decimal text of a float held in hundredths, as serde_json prints an f64.
FloatText(h) ==
    LET m == IF h < 0 THEN -h ELSE h
        whole == m \div 100
        frac == m % 100
        digits == IF frac % 10 = 0 THEN ToString(frac \div 10)
                  ELSE ToString(frac \div 10) \o ToString(frac % 10)
    IN (IF h < 0 THEN "-" ELSE "") \o ToString(whole) \o "." \o digits

\* serde_json::to_string of a Value (the strings of the model need no escaping).
RECURSIVE ToJson(_)
RECURSIVE JoinJson(_, _, _)
JoinJson(v, i, withKeys) ==
    IF i > Len(v.a) THEN ""
    ELSE (IF i > 1 THEN "," ELSE "")
             \o (IF withKeys THEN "\"" \o v.ks[i] \o "\":" ELSE "")
             \o ToJson(v.a[i]) \o JoinJson(v, i + 1, withKeys)
ToJson(v) ==
    CASE v.k = "null" -> "null"
      [] v.k = "bool" -> IF v.b THEN "true" ELSE "false"
      [] v.k = "int" -> ToString(v.n)
      [] v.k = "float" -> FloatText(v.n)
      [] v.k = "str" -> "\"" \o v.s \o "\""
      [] v.k = "arr" -> "[" \o JoinJson(v, 1, FALSE) \o "]"
      [] v.k = "obj" -> "{" \o JoinJson(v, 1, TRUE) \o "}"

(***************************************************************************)
(* Machine integers.                                                       *)
(***************************************************************************)
\* u16::MAX, the largest code of an EfficientCompactor dictionary.
U16Max == 65535
\* u8::MAX, the largest code of a TrulyEfficientCompactor dictionary.
U8Max == 255

(***************************************************************************)
(* EfficientCompactor.                                                     *)
(***************************************************************************)
CommonProperty == "https://common.terraphim.io/01jxw2jx8qze6yakh4fz24mnhy/property/"
AtomicProperty == "https://atomicdata.dev/properties/"

\* property_abbrevs: canonical field identifier -> short key.
init_property_abbreviations ==
    ((AtomicProperty \o "isA") :> "t")
    @@ ((AtomicProperty \o "parent") :> "p")
    @@ ((AtomicProperty \o "lastCommit") :> "lc")
    @@ ((CommonProperty \o "company-name") :> "cn")
    @@ ((CommonProperty \o "company-description") :> "cd")
    @@ ((CommonProperty \o "business-website") :> "bw")
    @@ ((CommonProperty \o "year-of-incorporation") :> "yi")
    @@ ((CommonProperty \o "company-registration-number") :> "rn")
    @@ ((CommonProperty \o "country-of-registration") :> "cr")

\* EfficientCompactor::new
EfficientCompactor_new ==
    [url_dict |-> {}, string_dict |-> {},
     property_abbrevs |-> init_property_abbreviations,
     next_url_id |-> 1, next_string_id |-> 1, panicked |-> FALSE]

\* The CompressionStats a run starts with (the sizes are accounted for apart).
NewStats ==
    [urls_deduplicated |-> 0, strings_deduplicated |-> 0,
     properties_abbreviated |-> 0, resources_processed |-> 0]

\* extract_type_name
extract_type_name(resource_type) ==
    Replace(Replace(LastOf(Split(resource_type, "/")), "-step", ""), "-", "_")

\* abbreviate_property: the short key and the stats after the call.
abbreviate_property(c, property, stats) ==
    IF property \in DOMAIN c.property_abbrevs
    THEN [name |-> c.property_abbrevs[property],
          stats |-> [stats EXCEPT !.properties_abbreviated = @ + 1]]
    ELSE [name |-> property, stats |-> stats]

\* next_url_id += 1 on a u16: with overflow checks the addition panics at
\* u16::MAX (after the insert, before the counter of the stats), without
\* them it wraps to 0.
BumpU16(c, field, checks) ==
    IF c[field] < U16Max THEN [c EXCEPT ![field] = @ + 1]
    ELSE IF checks THEN [c EXCEPT !.panicked = TRUE]
    ELSE [c EXCEPT ![field] = 0]

\* A faulty intern_url, which counts every call and not only the first
\* occurrence of a URL.
intern_url_CountsHits(c, url, stats, checks) ==
    IF MapHas(c.url_dict, url)
    THEN [c |-> c, stats |-> [stats EXCEPT !.urls_deduplicated = @ + 1],
          id |-> MapGet(c.url_dict, url)]
    ELSE [c |-> BumpU16([c EXCEPT !.url_dict = MapInsert(@, url, c.next_url_id)],
                        "next_url_id", checks),
          stats |-> [stats EXCEPT !.urls_deduplicated = @ + 1],
          id |-> c.next_url_id]

\* intern_url: the compactor, the stats and the code after the call.
intern_url(c, url, stats, checks) ==
    IF MapHas(c.url_dict, url)
    THEN [c |-> c, stats |-> stats, id |-> MapGet(c.url_dict, url)]
    ELSE LET after == BumpU16([c EXCEPT !.url_dict = MapInsert(@, url, c.next_url_id)],
                              "next_url_id", checks)
         IN [c |-> after,
             stats |-> IF after.panicked THEN stats
                       ELSE [stats EXCEPT !.urls_deduplicated = @ + 1],
             id |-> c.next_url_id]

\* intern_string
intern_string(c, str, stats, checks) ==
    IF MapHas(c.string_dict, str)
    THEN [c |-> c, stats |-> stats, id |-> MapGet(c.string_dict, str)]
    ELSE LET after == BumpU16([c EXCEPT !.string_dict = MapInsert(@, str, c.next_string_id)],
                              "next_string_id", checks)
         IN [c |-> after,
             stats |-> IF after.panicked THEN stats
                       ELSE [stats EXCEPT !.strings_deduplicated = @ + 1],
             id |-> c.next_string_id]

\* infer_field_type
infer_field_type(value) ==
    CASE value.k = "str" ->
            IF StartsWith(value.s, "https://") \/ StartsWith(value.s, "http://")
            THEN "Url" ELSE "Str"
      [] value.k = "int" -> "Int"
      [] value.k = "float" -> "Float"
      [] value.k = "bool" -> "Bool"
      [] value.k \in {"arr", "obj"} -> "Json"
      [] value.k = "null" -> "Str"

\* find_original_key: the key of obj that the column abbrev_name stands for.
find_original_key(c, obj, abbrev_name) ==
    IF HasKey(obj, abbrev_name) THEN Some(abbrev_name)
    ELSE LET full == {key \in DOMAIN c.property_abbrevs :
                        c.property_abbrevs[key] = abbrev_name /\ HasKey(obj, key)}
         IN IF full = {} THEN NoStr ELSE Some(CHOOSE key \in full : TRUE)

\* The (key, value) entries of the resources that are objects, in the order
\* the two nested loops of the field analysis visit them.
RECURSIVE Entries(_, _)
Entries(resources, i) ==
    IF i > Len(resources) THEN <<>>
    ELSE (IF resources[i].k = "obj"
          THEN [j \in 1..Len(resources[i].ks) |->
                    [key |-> resources[i].ks[j], value |-> resources[i].a[j]]]
          ELSE <<>>) \o Entries(resources, i + 1)

\* convert_to_columnar, "Analyze all fields across resources": all_fields
\* (HashMap::insert, so the last entry of a short key decides its type) and
\* the stats after the abbreviations.
RECURSIVE AnalyzeFields(_, _, _, _, _)
AnalyzeFields(c, entries, i, all_fields, stats) ==
    IF i > Len(entries) THEN [all_fields |-> all_fields, stats |-> stats]
    ELSE LET ab == abbreviate_property(c, entries[i].key, stats)
         IN AnalyzeFields(c, entries, i + 1,
                          (ab.name :> infer_field_type(entries[i].value)) @@ all_fields,
                          ab.stats)

\* The column map of a TypedResourceGroup that holds the columns of a type.
ColsOf(field_type) ==
    CASE field_type = "Str" -> "str_cols"
      [] field_type = "Int" -> "int_cols"
      [] field_type = "Float" -> "float_cols"
      [] field_type = "Bool" -> "bool_cols"
      [] field_type = "Url" -> "url_cols"
      [] field_type = "Json" -> "json_cols"

ColumnMaps == {"str_cols", "int_cols", "float_cols", "bool_cols", "url_cols", "json_cols"}

\* convert_to_columnar, "Initialize columns".
InitGroup(count, all_fields) ==
    [m \in ColumnMaps |->
        [f \in {g \in DOMAIN all_fields : ColsOf(all_fields[g]) = m} |-> <<>>]]
    @@ [count |-> count]

\* group.<map>.get_mut(field_name).unwrap().push(cell)
Push(group, field_type, field_name, cell) ==
    [group EXCEPT ![ColsOf(field_type)][field_name] = Append(@, cell)]

\* convert_to_columnar, "Fill columns with data": one (resource, field) step.
\* st holds the compactor, the stats and the group.
FillCell(st, obj, field_name, field_type, checks) ==
    LET original_key == find_original_key(st.c, obj, field_name)
        value == IF original_key.some THEN Get(obj, original_key.v) ELSE None
        interned(r) == [c |-> r.c, stats |-> r.stats,
                        group |-> Push(st.group, field_type, field_name, Some(r.id))]
        literal(cell) == [st EXCEPT !.group = Push(@, field_type, field_name, cell)]
    IN CASE field_type = "Str" ->
              IF AsStr(value).some
              THEN interned(intern_string(st.c, AsStr(value).v, st.stats, checks))
              ELSE literal(NoNum)
         [] field_type = "Int" -> literal(AsI64(value))
         [] field_type = "Float" -> literal(AsF64(value))
         [] field_type = "Bool" ->
              literal(IF AsBool(value).some THEN AsBool(value).v ELSE FALSE)
         [] field_type = "Url" ->
              IF AsStr(value).some
              THEN interned(intern_url(st.c, AsStr(value).v, st.stats, checks))
              ELSE literal(NoNum)
         [] field_type = "Json" ->
              IF value.some
              THEN interned(intern_string(st.c, ToJson(value.v), st.stats, checks))
              ELSE literal(NoNum)

\* The fill loops: resource i, field j of the iteration order `fields` of all_fields.
RECURSIVE FillColumns(_, _, _, _, _, _, _)
FillColumns(st, resources, all_fields, fields, i, j, checks) ==
    IF i > Len(resources) THEN st
    ELSE IF resources[i].k # "obj" \/ j > Len(fields)
         THEN FillColumns(st, resources, all_fields, fields, i + 1, 1, checks)
    ELSE FillColumns(FillCell(st, resources[i], fields[j], all_fields[fields[j]], checks),
                     resources, all_fields, fields, i, j + 1, checks)

\* convert_to_columnar: the compactor, the stats and the TypedResourceGroup,
\* for the order `fields` in which all_fields is iterated.
convert_to_columnar(c, resources, stats, fields, checks) ==
    LET an == AnalyzeFields(c, Entries(resources, 1), 1, <<>>, stats)
    IN FillColumns([c |-> c, stats |-> an.stats,
                    group |-> InitGroup(Len(resources), an.all_fields)],
                   resources, an.all_fields, fields, 1, 1, checks)

\* The keys of all_fields for a group: what `fields` is an order of.
FieldNames(c, resources) ==
    DOMAIN AnalyzeFields(c, Entries(resources, 1), 1, <<>>, NewStats).all_fields

\* The functions f on the keys K with f[k] \in S[k]: one iteration order for
\* each of several HashMaps.
RECURSIVE ProductOf(_, _)
ProductOf(K, S) ==
    IF K = {} THEN {<<>>}
    ELSE LET k == CHOOSE x \in K : TRUE
         IN {(k :> x) @@ f : x \in S[k], f \in ProductOf(K \ {k}, S)}

\* data.get("subresources").and_then(|v| v.as_array()).unwrap_or(&empty_vec)
Subresources(data) ==
    LET v == Get(data, "subresources")
    IN IF v.some /\ v.v.k = "arr" THEN v.v.a ELSE <<>>

\* A faulty grouping loop, which counts every element of the array as
\* processed, also one it files in no group.
RECURSIVE GroupResources_CountsAll(_, _, _, _)
GroupResources_CountsAll(subresources, i, groups, stats) ==
    IF i > Len(subresources) THEN [groups |-> groups, stats |-> stats]
    ELSE LET resource_type == AsStr(Get(subresources[i], "resource_type"))
             type_name == extract_type_name(resource_type.v)
             before == IF type_name \in DOMAIN groups THEN groups[type_name] ELSE <<>>
         IN GroupResources_CountsAll(
                subresources, i + 1,
                IF resource_type.some
                THEN (type_name :> Append(before, subresources[i])) @@ groups
                ELSE groups,
                [stats EXCEPT !.resources_processed = @ + 1])

\* compact_comprehensive_data, "Group resources by type": resource_groups and
\* the stats after the grouping loop.
RECURSIVE GroupResources(_, _, _, _)
GroupResources(subresources, i, groups, stats) ==
    IF i > Len(subresources) THEN [groups |-> groups, stats |-> stats]
    ELSE LET resource_type == AsStr(Get(subresources[i], "resource_type"))
             type_name == extract_type_name(resource_type.v)
             before == IF type_name \in DOMAIN groups THEN groups[type_name] ELSE <<>>
         IN IF resource_type.some
            THEN GroupResources(subresources, i + 1,
                                (type_name :> Append(before, subresources[i])) @@ groups,
                                [stats EXCEPT !.resources_processed = @ + 1])
            ELSE GroupResources(subresources, i + 1, groups, stats)

\* A faulty infer_schema, which lists every field as required whatever its
\* presence count.
infer_schema_AllRequired(resources) ==
    LET entries == Entries(resources, 1)
        keys == {entries[i].key : i \in DOMAIN entries}
        last(key) == CHOOSE i \in DOMAIN entries :
                        /\ entries[i].key = key
                        /\ \A j \in DOMAIN entries : entries[j].key = key => j <= i
    IN [required |-> keys, optional |-> {},
        types |-> [key \in keys |-> infer_field_type(entries[last(key)].value)]]

\* infer_schema: the field types by canonical key (the last entry decides) and
\* the partition of the keys by presence count; the two Vecs as sets.
infer_schema(resources) ==
    LET entries == Entries(resources, 1)
        keys == {entries[i].key : i \in DOMAIN entries}
        last(key) == CHOOSE i \in DOMAIN entries :
                        /\ entries[i].key = key
                        /\ \A j \in DOMAIN entries : entries[j].key = key => j <= i
        field_counts == [key \in keys |->
                            Cardinality({i \in DOMAIN entries : entries[i].key = key})]
    IN [required |-> {key \in keys : field_counts[key] = Len(resources)},
        optional |-> {key \in keys : field_counts[key] # Len(resources)},
        types |-> [key \in keys |-> infer_field_type(entries[last(key)].value)]]

\* compact_comprehensive_data, "Convert to columnar format": the loop over
\* resource_groups in the order `types`, all_fields of each group iterated in
\* the order fields[type_name].  acc holds the compactor, the stats, the
\* groups and the schemas built so far.
RECURSIVE ConvertGroups(_, _, _, _, _, _)
ConvertGroups(acc, groups, types, fields, i, checks) ==
    IF i > Len(types) THEN acc
    ELSE LET type_name == types[i]
             r == convert_to_columnar(acc.c, groups[type_name], acc.stats,
                                      fields[type_name], checks)
         IN ConvertGroups([c |-> r.c, stats |-> r.stats,
                           resources |-> (type_name :> r.group) @@ acc.resources,
                           resource_types |->
                               (type_name :> infer_schema(groups[type_name]))
                                   @@ acc.resource_types],
                          groups, types, fields, i + 1, checks)

\* create_reverse_url_dict / create_reverse_string_dict: code -> value.  When
\* several values hold one code the map keeps one of them, whichever the
\* iteration of the dictionary visits last: every outcome is in the set.
ReverseDicts(dict) ==
    LET ids == {e[2] : e \in dict}
        holders(id) == {e[1] : e \in {x \in dict : x[2] = id}}
        shared == {id \in ids : Cardinality(holders(id)) > 1}
        plain == [id \in ids \ shared |-> CHOOSE x \in holders(id) : TRUE]
    IN {f @@ plain : f \in ProductOf(shared, [id \in shared |-> holders(id)])}

\* The iteration orders compact_comprehensive_data depends on, for a compactor
\* and an input: of resource_groups, and of all_fields for each group.
GroupsOf(data) == GroupResources(Subresources(data), 1, <<>>, NewStats).groups

GroupOrders(data) == Orders(DOMAIN GroupsOf(data))

FieldOrders(c, data) ==
    ProductOf(DOMAIN GroupsOf(data),
              [t \in DOMAIN GroupsOf(data) |-> Orders(FieldNames(c, GroupsOf(data)[t]))])

\* compact_comprehensive_data up to the dictionaries: the compactor after the
\* run and the schema, the columnar data and the stats of the result.
compact_comprehensive_data(c, data, types, fields, checks) ==
    LET g == GroupResources(Subresources(data), 1, <<>>, NewStats)
    IN ConvertGroups([c |-> c, stats |-> g.stats, resources |-> <<>>,
                      resource_types |-> <<>>],
                     g.groups, types, fields, 1, checks)

\* EfficientCompactedData (stats without the sizes, which are accounted for apart).
EfficientCompactedData(r, urls, strings) ==
    [schema |-> [resource_types |-> r.resource_types, field_types |-> <<>>],
     data |-> [resources |-> r.resources],
     dictionaries |->
        [urls |-> urls, strings |-> strings,
         properties |->
            [short \in {r.c.property_abbrevs[key] : key \in DOMAIN r.c.property_abbrevs}
                |-> CHOOSE key \in DOMAIN r.c.property_abbrevs :
                        r.c.property_abbrevs[key] = short]],
     stats |-> r.stats]

(***************************************************************************)
(* The inputs of the pipeline specification: a root object whose           *)
(* "subresources" array holds up to MaxRecords elements of the pool, or a  *)
(* root without such an array.                                             *)
(***************************************************************************)
ClassUrl == "https://common.terraphim.io/01jxw2jx8qze6yakh4fz24mnhy/class/"
TypeA == ClassUrl \o "a-step"
TypeB == "https://example.com/class/b-c"
Url1 == "https://u1"
\* A string of more than 50 characters.
LongText == "EcoBright Solutions Uganda Limited is a clean energy company"

Typed(key, value, resource_type) ==
    Obj(<<key, "resource_type">>, <<value, Str(resource_type)>>)

Pool ==
    { Typed("p", Str(Url1), TypeA),
      Typed("flag", Bool(TRUE), TypeA),
      Typed("p", Str(LongText), TypeA),
      Typed("p", IntV(7), TypeA),
      Typed("j", Arr(<<IntV(1), Str(Url1)>>), TypeA),
      Typed("n", FloatV(250), TypeA),
      Typed(CommonProperty \o "company-name", Str("Test Company"), TypeB),
      Typed(CommonProperty \o "year-of-incorporation", IntV(2020), TypeB),
      Obj(<<"n">>, <<IntV(1)>>),
      IntV(5) }

RECURSIVE SeqsUpTo(_, _)
SeqsUpTo(S, n) ==
    IF n = 0 THEN {<<>>}
    ELSE SeqsUpTo(S, n - 1)
            \cup {Append(q, x) : q \in {r \in SeqsUpTo(S, n - 1) : Len(r) = n - 1}, x \in S}

Inputs ==
    {Obj(<<"subresources">>, <<Arr(q)>>) : q \in SeqsUpTo(Pool, MaxRecords)}
        \cup {Obj(<<>>, <<>>), Obj(<<"subresources">>, <<IntV(5)>>)}

\* The values a JSON column of these inputs can hold.
JsonValues ==
    UNION {Range(e.a) : e \in {x \in Pool : x.k = "obj"}}

\* serde_json::from_str::<Value> of a text that to_string produced: the value
\* with that text; Err (NoValue) when the text is none.
from_str(text) ==
    IF \E v \in JsonValues : ToJson(v) = text
    THEN Some(CHOOSE v \in JsonValues : ToJson(v) = text)
    ELSE None

\* Vec::get / HashMap::get
GetAt(values, i) == IF i \in DOMAIN values THEN Some(values[i]) ELSE None

\* reconstruct_data: the resource rebuilt from row i of a group (a map, as a
\* function from its keys).  Each block inserts into the same map, so a later
\* block wins over an earlier one.
ReconstructRow(compacted, type_name, group, i) ==
    LET dict == compacted.dictionaries
        original_key(f) == IF f \in DOMAIN dict.properties THEN dict.properties[f] ELSE f
        full_type_url == ClassUrl \o Replace(type_name, "_", "-") \o "-step"
        \* the fields of a column map whose cell at row i is Some(code) with the
        \* code in the dictionary
        coded(cols, table) ==
            {f \in DOMAIN cols : /\ i \in DOMAIN cols[f]
                                 /\ cols[f][i].some
                                 /\ cols[f][i].v \in DOMAIN table}
        present(cols) == {f \in DOMAIN cols : i \in DOMAIN cols[f] /\ cols[f][i].some}
        inserted(fs, val(_)) ==
            [key \in {original_key(f) : f \in fs} |->
                val(CHOOSE f \in fs : original_key(f) = key)]
        strs == inserted(coded(group.str_cols, dict.strings),
                         LAMBDA f : Str(dict.strings[group.str_cols[f][i].v]))
        urls == inserted(coded(group.url_cols, dict.urls),
                         LAMBDA f : Str(dict.urls[group.url_cols[f][i].v]))
        ints == inserted(present(group.int_cols),
                         LAMBDA f : IntV(group.int_cols[f][i].v))
        floats == inserted(present(group.float_cols),
                           LAMBDA f : FloatV(group.float_cols[f][i].v))
        bools == inserted({f \in DOMAIN group.bool_cols : i \in DOMAIN group.bool_cols[f]},
                          LAMBDA f : Bool(group.bool_cols[f][i]))
        jsons == inserted(coded(group.json_cols, dict.strings),
                          LAMBDA f :
                            LET json_string == dict.strings[group.json_cols[f][i].v]
                            IN IF from_str(json_string).some
                               THEN from_str(json_string).v
                               ELSE Str(json_string))
    IN jsons @@ bools @@ floats @@ ints @@ urls @@ strs
           @@ ("resource_type" :> Str(full_type_url))

\* reconstruct_data: the reconstructed subresources, the groups of the
\* artifact iterated in the order `types`.
RECURSIVE reconstruct_data(_, _)
reconstruct_data(compacted, types) ==
    IF types = <<>> THEN <<>>
    ELSE LET group == compacted.data.resources[Head(types)]
         IN [i \in 1..group.count |-> ReconstructRow(compacted, Head(types), group, i)]
                \o reconstruct_data(compacted, Tail(types))

(***************************************************************************)
(* TrulyEfficientCompactor.                                                *)
(***************************************************************************)
\* TrulyEfficientCompactor::new
TrulyEfficientCompactor_new ==
    [url_dict |-> {}, string_dict |-> {}, next_url_id |-> 1, next_string_id |-> 1]

\* The length above which compress_value interns a string that is no URL.
LongStringLen == 50
\* The longest type tag shorten_resource_type keeps.
TypeTagLen == 8
\* The longest short key the heuristics of abbreviate_field produce.
ShortKeyLen == 4

\* shorten_resource_type
shorten_resource_type(resource_type) ==
    Take(Replace(Replace(LastOf(Split(resource_type, "/")), "-step", ""), "-", "_"),
         TypeTagLen)

\* word.chars().next().unwrap_or('x') of each word, collected.
RECURSIVE Initials(_)
Initials(words) ==
    IF words = <<>> THEN ""
    ELSE (IF Len(Head(words)) = 0 THEN "x" ELSE SubSeq(Head(words), 1, 1))
            \o Initials(Tail(words))

\* abbreviate_field: the arms of the match in their order.
abbreviate_field(field) ==
    CASE field = AtomicProperty \o "isA" -> "t"
      [] field = AtomicProperty \o "parent" -> "p"
      [] field = AtomicProperty \o "lastCommit" -> "lc"
      [] field = "url" -> "u"
      [] field = "resource_type" -> "rt"
      [] field = "json_format" -> "jf"
      [] field = "json_ad_format" -> "jaf"
      [] field = "turtle_format" -> "tf"
      [] field = "fetch_errors" -> "fe"
      [] OTHER ->
            IF Contains(field, "company-name") THEN "cn"
            ELSE IF Contains(field, "company-description") THEN "cd"
            ELSE IF Contains(field, "business-website") THEN "bw"
            ELSE IF Contains(field, "year-of-incorporation") THEN "yi"
            ELSE IF Contains(field, "country-of-registration") THEN "cr"
            ELSE IF Contains(field, "registration-number") THEN "rn"
            ELSE IF Contains(field, "/property/")
                 THEN Take(Initials(Split(LastOf(Split(field, "/property/")), "-")),
                           ShortKeyLen)
            ELSE IF Len(field) <= ShortKeyLen THEN field
            ELSE Take(field, ShortKeyLen)

\* infer_compact_type
infer_compact_type(value) ==
    CASE value.k = "str" -> IF StartsWith(value.s, "http") THEN "u" ELSE "s"
      [] value.k = "int" -> "i"
      [] value.k = "float" -> "f"
      [] value.k = "bool" -> "b"
      [] value.k \in {"arr", "obj"} -> "j"
      [] value.k = "null" -> "s"

\* u8::saturating_add(1)
SaturatingAddU8(x) == IF x < U8Max THEN x + 1 ELSE U8Max

\* compress_value: the compactor and the compressed value after the call.
RECURSIVE compress_value(_, _)
RECURSIVE CompressElements(_, _, _, _)
CompressElements(c, arr, i, done) ==
    IF i > Len(arr) THEN [c |-> c, v |-> Arr(done)]
    ELSE LET r == compress_value(c, arr[i])
         IN CompressElements(r.c, arr, i + 1, Append(done, r.v))
compress_value(c, value) ==
    IF value.k = "str" /\ StartsWith(value.s, "http")
    THEN IF MapHas(c.url_dict, value.s)
         THEN [c |-> c, v |-> IntV(MapGet(c.url_dict, value.s))]
         ELSE [c |-> [c EXCEPT !.url_dict = MapInsert(@, value.s, c.next_url_id),
                               !.next_url_id = SaturatingAddU8(@)],
               v |-> IntV(c.next_url_id)]
    ELSE IF value.k = "str" /\ Len(value.s) > LongStringLen
    THEN IF MapHas(c.string_dict, value.s)
         THEN [c |-> c, v |-> IntV(MapGet(c.string_dict, value.s))]
         ELSE [c |-> [c EXCEPT !.string_dict = MapInsert(@, value.s, c.next_string_id),
                               !.next_string_id = SaturatingAddU8(@)],
               v |-> IntV(c.next_string_id)]
    ELSE IF value.k = "arr" THEN CompressElements(c, value.a, 1, <<>>)
    ELSE [c |-> c, v |-> value]

\* find_original_key of TrulyEfficientCompactor: the direct match, the fixed
\* candidates of the short key in their order, then the first key of the
\* object that abbreviates to the short key.
PossibleKeys(abbrev) ==
    CASE abbrev = "t" -> <<AtomicProperty \o "isA">>
      [] abbrev = "p" -> <<AtomicProperty \o "parent">>
      [] abbrev = "lc" -> <<AtomicProperty \o "lastCommit">>
      [] abbrev = "cn" -> <<CommonProperty \o "company-name", "company-name">>
      [] abbrev = "cd" -> <<CommonProperty \o "company-description", "company-description">>
      [] abbrev = "yi" -> <<CommonProperty \o "year-of-incorporation", "year-of-incorporation">>
      [] OTHER -> <<>>

\* The first element of the sequence q whose flag is set, as an Option.
RECURSIVE FirstFlagged(_, _, _)
FirstFlagged(q, flags, i) ==
    IF i > Len(q) THEN NoStr
    ELSE IF flags[i] THEN Some(q[i])
    ELSE FirstFlagged(q, flags, i + 1)

\* Iterator::find: the first element of the sequence q that satisfies Test.
FirstWhere(q, Test(_)) == FirstFlagged(q, [i \in DOMAIN q |-> Test(q[i])], 1)

find_original_key_T(obj, abbrev) ==
    LET known == FirstWhere(<<abbrev>> \o PossibleKeys(abbrev),
                            LAMBDA key : HasKey(obj, key))
    IN IF known.some THEN known
       ELSE FirstWhere(obj.ks, LAMBDA key : abbreviate_field(key) = abbrev)

\* convert_to_tabular, first pass: the type of each short key
\* (entry().or_insert_with, so the first entry of a short key decides).
RECURSIVE FieldAnalysis(_, _, _)
FieldAnalysis(entries, i, types) ==
    IF i > Len(entries) THEN types
    ELSE FieldAnalysis(entries, i + 1,
                       types @@ (abbreviate_field(entries[i].key)
                                    :> infer_compact_type(entries[i].value)))

\* convert_to_tabular, second pass: resource i, short key j of the iteration
\* order `fields` of field_analysis.  st holds the compactor and the columns.
RECURSIVE CollectValues(_, _, _, _, _)
CollectValues(st, resources, fields, i, j) ==
    IF i > Len(resources) THEN st
    ELSE IF resources[i].k # "obj" \/ j > Len(fields)
         THEN CollectValues(st, resources, fields, i + 1, 1)
    ELSE LET original_key == find_original_key_T(resources[i], fields[j])
             r == compress_value(st.c, Get(resources[i], original_key.v).v)
         IN IF original_key.some
            THEN CollectValues([c |-> r.c,
                                columns |-> [st.columns EXCEPT
                                                ![fields[j]] = Append(@, r.v)]],
                               resources, fields, i, j + 1)
            ELSE CollectValues([st EXCEPT !.columns[fields[j]] = Append(@, Null)],
                               resources, fields, i, j + 1)

\* A faulty convert_to_tabular, which records as n the number of rows it
\* filled (the objects) and not the number of resources of the group.
convert_to_tabular_CountsObjects(c, resources, fields) ==
    IF resources = <<>>
    THEN [c |-> c, tabular |-> [n |-> 0, c |-> <<>>], schema |-> <<>>]
    ELSE LET types == FieldAnalysis(Entries(resources, 1), 1, <<>>)
             st == CollectValues([c |-> c, columns |-> [f \in DOMAIN types |-> <<>>]],
                                 resources, fields, 1, 1)
         IN [c |-> st.c,
             tabular |-> [n |-> Cardinality({i \in DOMAIN resources :
                                               resources[i].k = "obj"}),
                          c |-> st.columns],
             schema |-> types]

\* convert_to_tabular: the compactor, the TabularData and the group's schema.
convert_to_tabular(c, resources, fields) ==
    IF resources = <<>>
    THEN [c |-> c, tabular |-> [n |-> 0, c |-> <<>>], schema |-> <<>>]
    ELSE LET types == FieldAnalysis(Entries(resources, 1), 1, <<>>)
             st == CollectValues([c |-> c, columns |-> [f \in DOMAIN types |-> <<>>]],
                                 resources, fields, 1, 1)
         IN [c |-> st.c, tabular |-> [n |-> Len(resources), c |-> st.columns],
             schema |-> types]

\* compact, "Group by resource type": every element, under "unknown" when it
\* has no string resource_type.
RECURSIVE GroupByType(_, _, _)
GroupByType(subresources, i, grouped) ==
    IF i > Len(subresources) THEN grouped
    ELSE LET resource_type == AsStr(Get(subresources[i], "resource_type"))
             short_type == shorten_resource_type(
                              IF resource_type.some THEN resource_type.v ELSE "unknown")
             before == IF short_type \in DOMAIN grouped THEN grouped[short_type] ELSE <<>>
         IN GroupByType(subresources, i + 1,
                        (short_type :> Append(before, subresources[i])) @@ grouped)

\* compact, "Convert to compact tabular format": the loop over grouped in the
\* order `types`; schema.types by HashMap::insert (schema.order is left out).
RECURSIVE ConvertTabular(_, _, _, _, _)
ConvertTabular(acc, grouped, types, fields, i) ==
    IF i > Len(types) THEN acc
    ELSE LET r == convert_to_tabular(acc.c, grouped[types[i]], fields[types[i]])
         IN ConvertTabular([c |-> r.c,
                            d |-> (types[i] :> r.tabular) @@ acc.d,
                            types |-> r.schema @@ acc.types],
                           grouped, types, fields, i + 1)

GroupedOf(data) == GroupByType(Subresources(data), 1, <<>>)

GroupOrdersT(data) == Orders(DOMAIN GroupedOf(data))

FieldOrdersT(data) ==
    ProductOf(DOMAIN GroupedOf(data),
              [t \in DOMAIN GroupedOf(data) |->
                  Orders(DOMAIN FieldAnalysis(Entries(GroupedOf(data)[t], 1), 1, <<>>))])

\* compact up to the dictionaries: the compactor, the tabular data and the
\* schema types after the run.
compact(c, data, types, fields) ==
    ConvertTabular([c |-> c, d |-> <<>>, types |-> <<>>],
                   GroupedOf(data), types, fields, 1)

\* CompactFormat (stats are accounted for apart): u and t are None for an
\* empty dictionary.
CompactFormat(r, urls, strings) ==
    [s |-> [types |-> r.types],
     d |-> r.d,
     u |-> IF r.c.url_dict = {} THEN [some |-> FALSE, v |-> <<>>] ELSE Some(urls),
     t |-> IF r.c.string_dict = {} THEN [some |-> FALSE, v |-> <<>>]
           ELSE Some(strings)]

\* expand_field_name
expand_field_name(abbrev) ==
    CASE abbrev = "t" -> AtomicProperty \o "isA"
      [] abbrev = "p" -> AtomicProperty \o "parent"
      [] abbrev = "lc" -> AtomicProperty \o "lastCommit"
      [] abbrev = "cn" -> CommonProperty \o "company-name"
      [] abbrev = "cd" -> CommonProperty \o "company-description"
      [] abbrev = "bw" -> CommonProperty \o "business-website"
      [] abbrev = "yi" -> CommonProperty \o "year-of-incorporation"
      [] abbrev = "cr" -> CommonProperty \o "country-of-registration"
      [] abbrev = "rn" -> CommonProperty \o "company-registration-number"
      [] abbrev = "u" -> "url"
      [] abbrev = "rt" -> "resource_type"
      [] abbrev = "jf" -> "json_format"
      [] abbrev = "jaf" -> "json_ad_format"
      [] abbrev = "tf" -> "turtle_format"
      [] abbrev = "fe" -> "fetch_errors"
      [] OTHER -> abbrev

\* n.as_u64().unwrap() as u8
AsU8(n) == n % (U8Max + 1)

\* decompress_value
RECURSIVE decompress_value(_, _)
decompress_value(value, compact_format) ==
    IF value.k = "int" /\ value.n >= 0
    THEN LET id == AsU8(value.n)
         IN IF compact_format.u.some /\ id \in DOMAIN compact_format.u.v
            THEN Str(compact_format.u.v[id])
            ELSE IF compact_format.t.some /\ id \in DOMAIN compact_format.t.v
            THEN Str(compact_format.t.v[id])
            ELSE value
    ELSE IF value.k = "arr"
    THEN Arr([i \in DOMAIN value.a |-> decompress_value(value.a[i], compact_format)])
    ELSE value

\* reconstruct: the resource rebuilt from row i of a group, the columns of the
\* group iterated in the order `fields` (a later insert of a key replaces an
\* earlier one).
RECURSIVE ReconstructFields(_, _, _, _, _)
ReconstructFields(resource, compact_format, tabular, fields, i) ==
    IF fields = <<>> THEN resource
    ELSE LET column == tabular.c[Head(fields)]
             value == GetAt(column, i)
         IN ReconstructFields(
                IF value.some /\ value.v.k # "null"
                THEN (expand_field_name(Head(fields))
                        :> decompress_value(value.v, compact_format)) @@ resource
                ELSE resource,
                compact_format, tabular, Tail(fields), i)

\* reconstruct: the reconstructed subresources, the groups iterated in the
\* order `types` and the columns of each in the order fields[type_name].
RECURSIVE reconstruct(_, _, _)
reconstruct(compact_format, types, fields) ==
    IF types = <<>> THEN <<>>
    ELSE LET tabular == compact_format.d[Head(types)]
             full_type == ClassUrl \o Replace(Head(types), "_", "-") \o "-step"
         IN [i \in 1..tabular.n |->
                ReconstructFields("resource_type" :> Str(full_type), compact_format,
                                  tabular, fields[Head(types)], i)]
                \o reconstruct(compact_format, Tail(types), fields)

(***************************************************************************)
(* DataCompactor (lib.rs): one counter next_id serves the URL table and    *)
(* the string table; compaction rewrites the value tree in place of        *)
(* building columns.                                                       *)
(***************************************************************************)
\* The length above which compress_string interns a string.
CompressLen == 50

\* property_mappings: canonical field identifier -> short name.
initialize_property_mappings ==
    (AtomicProperty \o "isA" :> "isA")
        @@ (AtomicProperty \o "parent" :> "parent")
        @@ (AtomicProperty \o "lastCommit" :> "lastCommit")
        @@ (AtomicProperty \o "subresources" :> "subresources")
        @@ (CommonProperty \o "company-name" :> "companyName")
        @@ (CommonProperty \o "company-description" :> "companyDesc")
        @@ (CommonProperty \o "business-website" :> "website")
        @@ (CommonProperty \o "company-registration-number" :> "regNumber")
        @@ (CommonProperty \o "year-of-incorporation" :> "yearInc")
        @@ (CommonProperty \o "country-of-registration" :> "country")
        @@ (CommonProperty \o "trading-name" :> "tradingName")
        @@ (CommonProperty \o "business-type" :> "bizType")
        @@ (CommonProperty \o "annual-revenue" :> "revenue")
        @@ (CommonProperty \o "number-of-employees" :> "employees")
        @@ (CommonProperty \o "years-in-business" :> "yearsInBiz")
        @@ (CommonProperty \o "is-business-female-lead" :> "femaleLed")
        @@ (CommonProperty \o "board-of-directors" :> "board")
        @@ (CommonProperty \o "key-management-personnel" :> "management")
        @@ (CommonProperty \o "business-owners" :> "owners")
        @@ (CommonProperty \o "business-auditors" :> "auditors")

\* A faulty constructor, whose counter starts at 0.
DataCompactor_new_FromZero ==
    [url_mappings |-> {}, string_mappings |-> {},
     property_mappings |-> initialize_property_mappings, next_id |-> 0]

DataCompactor_new ==
    [url_mappings |-> {}, string_mappings |-> {},
     property_mappings |-> initialize_property_mappings, next_id |-> 1]

\* The counters of CompressionStats that compact_value moves.
NewCompressionStats ==
    [urls_compressed |-> 0, strings_compressed |-> 0, properties_abbreviated |-> 0]

is_url(s) == StartsWith(s, "http://") \/ StartsWith(s, "https://")

\* serde_json::Map::insert: the value of a key the map holds is replaced.
ObjInsert(obj, key, val) ==
    IF HasKey(obj, key)
    THEN [obj EXCEPT !.a[CHOOSE i \in DOMAIN obj.ks : obj.ks[i] = key] = val]
    ELSE [obj EXCEPT !.ks = Append(@, key), !.a = Append(@, val)]

\* serde_json::Map::remove
ObjRemove(obj, key) ==
    LET keep == {i \in DOMAIN obj.ks : obj.ks[i] # key}
        Pick(q) == [n \in 1..Cardinality(keep) |->
                       q[CHOOSE i \in keep : Cardinality({j \in keep : j < i}) = n - 1]]
    IN [obj EXCEPT !.ks = Pick(obj.ks), !.a = Pick(obj.a)]

\* The entries inserted one after the other into a map.
RECURSIVE InsertAll(_, _, _, _)
InsertAll(keys, vals, i, obj) ==
    IF i > Len(keys) THEN obj
    ELSE InsertAll(keys, vals, i + 1, ObjInsert(obj, keys[i], vals[i]))

\* A faulty string table, which numbers its strings by a counter of its own.
compress_string_OwnCounter(c, s, stats) ==
    IF Len(s) > CompressLen \/ MapHas(c.string_mappings, s)
    THEN IF MapHas(c.string_mappings, s)
         THEN [c |-> c, stats |-> stats, v |-> IntV(MapGet(c.string_mappings, s))]
         ELSE [c |-> [c EXCEPT !.string_mappings =
                                   MapInsert(@, s, Cardinality(c.string_mappings) + 1)],
               stats |-> [stats EXCEPT !.strings_compressed = @ + 1],
               v |-> IntV(Cardinality(c.string_mappings) + 1)]
    ELSE [c |-> c, stats |-> stats, v |-> Str(s)]

\* The string table: a string longer than CompressLen, or one the table
\* holds, is replaced by its code; the code of a new string is next_id.
compress_string(c, s, stats) ==
    IF Len(s) > CompressLen \/ MapHas(c.string_mappings, s)
    THEN IF MapHas(c.string_mappings, s)
         THEN [c |-> c, stats |-> stats, v |-> IntV(MapGet(c.string_mappings, s))]
         ELSE [c |-> [c EXCEPT !.string_mappings = MapInsert(@, s, c.next_id),
                               !.next_id = @ + 1],
               stats |-> [stats EXCEPT !.strings_compressed = @ + 1],
               v |-> IntV(c.next_id)]
    ELSE [c |-> c, stats |-> stats, v |-> Str(s)]

\* The number as an f64, printed with three significant digits ("{:.2e}")
\* above 1000 and below 0.01, with two decimals ("{:.2}") in between, and
\* parsed back: a float in every case.  Hundredths below 0.01 are zero.
compress_number(n) ==
    LET h == AsF64(Some(n)).v
        m == IF h < 0 THEN -h ELSE h
        p == CHOOSE x \in {10 ^ i : i \in 0..9} : m \div x \in 100..999
        q == m \div p
        r == m % p
        up == 2 * r > p \/ (2 * r = p /\ q % 2 = 1)
        rounded == (IF up THEN q + 1 ELSE q) * p
    IN IF m > 1000 * 100
       THEN FloatV(IF h < 0 THEN -rounded ELSE rounded)
       ELSE FloatV(h)

\* compact_value: the value with the keys of its objects abbreviated, its
\* URLs and long strings replaced by codes, its numbers rounded and its
\* booleans written "T" and "F"; CompactItems is the loop over the values
\* of an object or the items of an array.
RECURSIVE compact_value(_, _, _)
RECURSIVE CompactItems(_, _, _, _, _)
CompactItems(c, items, i, stats, done) ==
    IF i > Len(items) THEN [c |-> c, stats |-> stats, vs |-> done]
    ELSE LET r == compact_value(c, items[i], stats)
         IN CompactItems(r.c, items, i + 1, r.stats, Append(done, r.v))

compact_value(c, value, stats) ==
    CASE value.k = "obj" ->
            LET known == {i \in DOMAIN value.ks : value.ks[i] \in DOMAIN c.property_mappings}
                keys == [i \in DOMAIN value.ks |->
                            IF i \in known THEN c.property_mappings[value.ks[i]]
                            ELSE value.ks[i]]
                r == CompactItems(c, value.a, 1, stats, <<>>)
            IN [c |-> r.c,
                stats |-> [r.stats EXCEPT !.properties_abbreviated = @ + Cardinality(known)],
                v |-> InsertAll(keys, r.vs, 1, Obj(<<>>, <<>>))]
      [] value.k = "arr" ->
            LET r == CompactItems(c, value.a, 1, stats, <<>>)
            IN [c |-> r.c, stats |-> r.stats, v |-> Arr(r.vs)]
      [] value.k = "str" ->
            IF is_url(value.s)
            THEN IF MapHas(c.url_mappings, value.s)
                 THEN [c |-> c, stats |-> stats, v |-> IntV(MapGet(c.url_mappings, value.s))]
                 ELSE [c |-> [c EXCEPT !.url_mappings = MapInsert(@, value.s, c.next_id),
                                       !.next_id = @ + 1],
                       stats |-> [stats EXCEPT !.urls_compressed = @ + 1],
                       v |-> IntV(c.next_id)]
            ELSE compress_string(c, value.s, stats)
      [] value.k \in {"int", "float"} ->
            [c |-> c, stats |-> stats, v |-> compress_number(value)]
      [] value.k = "bool" ->
            [c |-> c, stats |-> stats, v |-> Str(IF value.b THEN "T" ELSE "F")]
      [] OTHER -> [c |-> c, stats |-> stats, v |-> value]

\* DataCompactor::apply_structural_compaction: type_name
structural_type_name(resource_type) ==
    Replace(Replace(LastOf(Split(resource_type, "/")), "-step", ""), "-", "_")

\* The elements of "subresources" that apply_structural_compaction groups:
\* the objects with a string "resource_type".
StructuralRecords(data) ==
    LET subresources == Get(data, "subresources")
    IN IF subresources.some /\ subresources.v.k = "arr"
       THEN SelectSeq(subresources.v.a,
                      LAMBDA x : x.k = "obj" /\ AsStr(Get(x, "resource_type")).some)
       ELSE <<>>

StructuralTag(record) == structural_type_name(Get(record, "resource_type").v.s)

\* The orders in which the map `grouped` may list its keys.
TagOrders(data) == Orders({StructuralTag(x) : x \in Range(StructuralRecords(data))})

\* apply_structural_compaction: "subresources", when it is an array, gives
\* way to "subresources_grouped", the typed records under their type names.
apply_structural_compaction(data, tag_order) ==
    LET subresources == Get(data, "subresources")
        grouped == Obj(tag_order,
                       [i \in DOMAIN tag_order |->
                           Arr(SelectSeq(StructuralRecords(data),
                                         LAMBDA x : StructuralTag(x) = tag_order[i]))])
    IN IF subresources.some /\ subresources.v.k = "arr"
       THEN ObjRemove(ObjInsert(data, "subresources_grouped", grouped), "subresources")
       ELSE data

Sign(x) == IF x > 0 THEN 1 ELSE IF x < 0 THEN -1 ELSE 0

\* usize as f32, for a size below 2^25: exact up to 2^24, to the nearest even
\* integer above, a tie going to the neighbour with the even significand.
AsF32(n) ==
    IF n <= 2^24 \/ n % 2 = 0 THEN n
    ELSE IF (n \div 2) % 2 = 0 THEN n - 1 ELSE n + 1

\* DataCompactor::compact_comprehensive_data:
\*   (original_size - stats.compacted_size) as f32 / original_size as f32
\* The subtraction is on usize: below zero it panics with overflow checks
\* and wraps to 2^64 - (compacted_size - original_size) without them.
compression_ratio_D(original_size, compacted_size, overflow_checks) ==
    IF compacted_size > original_size
    THEN IF overflow_checks THEN [state |-> "panic", sign |-> 0]
         ELSE [state |-> "ok", sign |-> 1]
    ELSE [state |-> "ok", sign |-> Sign(AsF32(original_size - compacted_size))]

\* DataCompactor::compact_comprehensive_data up to the result it returns:
\* the compactor afterwards, the compacted value, the counters, and whether
\* the subtraction of the sizes panicked.
compact_comprehensive_data_D(c, data, tag_order, overflow_checks) ==
    LET r == compact_value(c, apply_structural_compaction(data, tag_order),
                           NewCompressionStats)
        size == compression_ratio_D(Len(ToJson(data)), Len(ToJson(r.v)), overflow_checks)
    IN [c |-> r.c, state |-> size.state, data |-> r.v, stats |-> r.stats]

\* CompactedData, given the maps the reverse lookups collect.
CompactedData(r, urls, strings) ==
    [data |-> r.data, url_lookup |-> urls, string_lookup |-> strings,
     property_lookup |-> r.c.property_mappings, stats |-> r.stats]

\* DataCompactor::decompress_value: keys back through property_mappings, an
\* unsigned integer through url_lookup and then string_lookup, "T" and "F"
\* to booleans.  No two entries of property_mappings share a short name.
RECURSIVE decompress_value_D(_, _, _, _)
decompress_value_D(c, value, url_lookup, string_lookup) ==
    CASE value.k = "obj" ->
            LET full(key) == {k \in DOMAIN c.property_mappings : c.property_mappings[k] = key}
                keys == [i \in DOMAIN value.ks |->
                            IF full(value.ks[i]) = {} THEN value.ks[i]
                            ELSE CHOOSE k \in full(value.ks[i]) : TRUE]
                vals == [i \in DOMAIN value.a |->
                            decompress_value_D(c, value.a[i], url_lookup, string_lookup)]
            IN InsertAll(keys, vals, 1, Obj(<<>>, <<>>))
      [] value.k = "arr" ->
            Arr([i \in DOMAIN value.a |->
                    decompress_value_D(c, value.a[i], url_lookup, string_lookup)])
      [] value.k = "int" ->
            IF value.n >= 0 /\ value.n \in DOMAIN url_lookup THEN Str(url_lookup[value.n])
            ELSE IF value.n >= 0 /\ value.n \in DOMAIN string_lookup
                 THEN Str(string_lookup[value.n])
                 ELSE value
      [] value.k = "str" ->
            IF value.s = "T" THEN Bool(TRUE)
            ELSE IF value.s = "F" THEN Bool(FALSE) ELSE value
      [] OTHER -> value

\* DataCompactor::decompress
decompress(c, compacted) ==
    decompress_value_D(c, compacted.data, compacted.url_lookup, compacted.string_lookup)

(***************************************************************************)
(* State.                                                                  *)
(***************************************************************************)
VARIABLES
    input,      \* the root value handed to the engine
    engine,     \* the engine this behaviour runs: "none" until one is chosen
    checks,     \* whether the build checks integer overflow (debug) or wraps
    ecomp,      \* the EfficientCompactor instance
    eart,       \* its artifact: [state |-> "none" | "ok" | "panic", data]
    erec,       \* the subresources reconstruct_data returned
    tcomp,      \* the TrulyEfficientCompactor instance
    tart,       \* its artifact
    trec,       \* the subresources reconstruct returned
    first_code, \* per dictionary, the code each value got when first interned
    last_call,  \* the last call of an interning function and what it returned
    inferred,   \* the column type each engine inferred for the value `input`
    sizes,      \* the lengths of the original and of the compacted JSON texts
    ratio,      \* the compression ratio each engine computed from `sizes`
    tags,       \* the type tags each engine derived for a pair of type identifiers
    dcomp,      \* the DataCompactor instance
    dart,       \* the CompactedData it returned
    drec,       \* the value decompress returned
    race        \* two calls of intern_url in steps, and the instances they use

vars == <<input, engine, checks, ecomp, eart, erec, tcomp, tart, trec,
          first_code, last_call, inferred, sizes, ratio, tags, dcomp, dart, drec, race>>

NoResult == [state |-> "none"]

NoCodes == [url |-> <<>>, string |-> <<>>]
NoCall == [dict |-> "none", value |-> "", id |-> 0, again |-> FALSE, size_before |-> 0]
NoTypes == [e |-> "", t |-> ""]
NoSizes == [original |-> 0, compacted |-> 0]
NoRatio == [state |-> "none", sign |-> 0]
NoRatios == [d |-> NoRatio, e |-> NoRatio, t |-> NoRatio]
NoTags == [ids |-> <<>>, d |-> <<>>, e |-> <<>>, t |-> <<>>]
NoRace == [shared |-> FALSE, comp |-> <<>>, proc |-> <<>>]

Init ==
    /\ input \in Inputs
    /\ engine = "none"
    /\ checks = TRUE
    /\ ecomp = EfficientCompactor_new
    /\ eart = NoResult
    /\ erec = NoResult
    /\ tcomp = TrulyEfficientCompactor_new
    /\ tart = NoResult
    /\ trec = NoResult
    /\ first_code = NoCodes
    /\ last_call = NoCall
    /\ inferred = NoTypes
    /\ sizes = NoSizes
    /\ ratio = NoRatios
    /\ tags = NoTags
    /\ dcomp = DataCompactor_new
    /\ dart = NoResult
    /\ drec = NoResult
    /\ race = NoRace

\* compactor.compact_comprehensive_data(&input) on the fresh compactor.
ECompact ==
    /\ engine = "none"
    /\ \E types \in GroupOrders(input), fields \in FieldOrders(ecomp, input) :
          LET r == compact_comprehensive_data(ecomp, input, types, fields, checks)
          IN /\ ecomp' = r.c
             /\ \E urls \in ReverseDicts(r.c.url_dict),
                   strings \in ReverseDicts(r.c.string_dict) :
                   eart' = IF r.c.panicked THEN [state |-> "panic"]
                           ELSE [state |-> "ok",
                                 data |-> EfficientCompactedData(r, urls, strings)]
    /\ engine' = "E"
    /\ UNCHANGED <<input, checks, erec, tcomp, tart, trec, first_code, last_call, inferred, sizes, ratio, tags, dcomp, dart, drec, race>>

\* EfficientCompactor::reconstruct_data(&compacted)
EReconstruct ==
    /\ engine = "E"
    /\ eart.state = "ok"
    /\ erec = NoResult
    /\ \E types \in Orders(DOMAIN eart.data.data.resources) :
          erec' = [state |-> "ok", subresources |-> reconstruct_data(eart.data, types)]
    /\ UNCHANGED <<input, engine, checks, ecomp, eart, tcomp, tart, trec,
                   first_code, last_call, inferred, sizes, ratio, tags, dcomp, dart, drec, race>>

\* compactor.compact(&input) on the fresh compactor.
TCompact ==
    /\ engine = "none"
    /\ \E types \in GroupOrdersT(input), fields \in FieldOrdersT(input) :
          LET r == compact(tcomp, input, types, fields)
          IN /\ tcomp' = r.c
             /\ \E urls \in ReverseDicts(r.c.url_dict),
                   strings \in ReverseDicts(r.c.string_dict) :
                   tart' = [state |-> "ok", data |-> CompactFormat(r, urls, strings)]
    /\ engine' = "T"
    /\ UNCHANGED <<input, checks, ecomp, eart, erec, trec, first_code, last_call, inferred, sizes, ratio, tags, dcomp, dart, drec, race>>

\* TrulyEfficientCompactor::reconstruct(&compacted)
TReconstruct ==
    /\ engine = "T"
    /\ tart.state = "ok"
    /\ trec = NoResult
    /\ \E types \in Orders(DOMAIN tart.data.d),
          fields \in ProductOf(DOMAIN tart.data.d,
                               [t \in DOMAIN tart.data.d |->
                                   Orders(DOMAIN tart.data.d[t].c)]) :
          trec' = [state |-> "ok",
                   subresources |-> reconstruct(tart.data, types, fields)]
    /\ UNCHANGED <<input, engine, checks, ecomp, eart, erec, tcomp, tart,
                   first_code, last_call, inferred, sizes, ratio, tags, dcomp, dart, drec, race>>

\* compactor.compact_comprehensive_data(&data) on the fresh DataCompactor,
\* in a build with or without overflow checks.
DCompact ==
    /\ engine = "none"
    /\ \E tag_order \in TagOrders(input), overflow_checks \in BOOLEAN :
          LET r == compact_comprehensive_data_D(dcomp, input, tag_order, overflow_checks)
          IN /\ dcomp' = r.c
             /\ IF r.state = "ok"
                THEN \E urls \in ReverseDicts(r.c.url_mappings),
                        strings \in ReverseDicts(r.c.string_mappings) :
                        dart' = [state |-> "ok", data |-> CompactedData(r, urls, strings)]
                ELSE dart' = [state |-> "panic"]
    /\ engine' = "D"
    /\ UNCHANGED <<input, checks, ecomp, eart, erec, tcomp, tart, trec, first_code,
                   last_call, inferred, sizes, ratio, tags, drec, race>>

\* compactor.decompress(&compacted)
DDecompress ==
    /\ engine = "D"
    /\ dart.state = "ok"
    /\ drec = NoResult
    /\ drec' = [state |-> "ok", data |-> decompress(dcomp, dart.data)]
    /\ UNCHANGED <<input, engine, checks, ecomp, eart, erec, tcomp, tart, trec, first_code,
                   last_call, inferred, sizes, ratio, tags, dcomp, dart, race>>

Next == ECompact \/ EReconstruct \/ TCompact \/ TReconstruct \/ DCompact \/ DDecompress

Spec == Init /\ [][Next]_vars

(***************************************************************************)
(* The repeated-run specification: a compaction run on a fresh compactor   *)
(* and then a second run, on another input, on the same instance.          *)
(***************************************************************************)
\* Longest subresources array of the input of the second run.
MaxAgain == 1

SecondInputs ==
    {Obj(<<"subresources">>, <<Arr(q)>>) : q \in SeqsUpTo(Pool, MaxAgain)}
        \cup {Obj(<<>>, <<>>)}

\* compactor.compact_comprehensive_data(&second) on the compactor of the
\* first run.
ECompactAgain ==
    /\ engine = "E"
    /\ eart.state = "ok"
    /\ \E second \in SecondInputs :
          /\ input' = second
          /\ \E types \in GroupOrders(second), fields \in FieldOrders(ecomp, second) :
                LET r == compact_comprehensive_data(ecomp, second, types, fields, checks)
                IN /\ ecomp' = r.c
                   /\ \E urls \in ReverseDicts(r.c.url_dict),
                         strings \in ReverseDicts(r.c.string_dict) :
                         eart' = IF r.c.panicked THEN [state |-> "panic"]
                                 ELSE [state |-> "ok",
                                       data |-> EfficientCompactedData(r, urls, strings)]
    /\ engine' = "EE"
    /\ UNCHANGED <<checks, erec, tcomp, tart, trec, first_code, last_call, inferred,
                   sizes, ratio, tags, dcomp, dart, drec, race>>

\* compactor.compact(&second) on the compactor of the first run.
TCompactAgain ==
    /\ engine = "T"
    /\ tart.state = "ok"
    /\ \E second \in SecondInputs :
          /\ input' = second
          /\ \E types \in GroupOrdersT(second), fields \in FieldOrdersT(second) :
                LET r == compact(tcomp, second, types, fields)
                IN /\ tcomp' = r.c
                   /\ \E urls \in ReverseDicts(r.c.url_dict),
                         strings \in ReverseDicts(r.c.string_dict) :
                         tart' = [state |-> "ok", data |-> CompactFormat(r, urls, strings)]
    /\ engine' = "TT"
    /\ UNCHANGED <<checks, ecomp, eart, erec, trec, first_code, last_call, inferred,
                   sizes, ratio, tags, dcomp, dart, drec, race>>

NextRuns == ECompact \/ TCompact \/ ECompactAgain \/ TCompactAgain

SpecRuns == Init /\ [][NextRuns]_vars

(***************************************************************************)
(* The dictionary specification: the interning functions called one value  *)
(* at a time on one compactor, which is fresh or, for the u16              *)
(* dictionaries, has interned all but Headroom of the codes already.  The  *)
(* values are named by their rank, so the next value never interned is     *)
(* the one after the size of the dictionary.                               *)
(***************************************************************************)
\* How many values the calls intern beyond the capacity of a dictionary.
MaxBeyond == 2
\* How many entries the other dictionary may hold while one grows.
MaxOther == 1
\* How many values a fresh EfficientCompactor dictionary takes.
MaxFresh == 3
\* How many codes short of u16::MAX the filled dictionaries start.
Headroom == 2
\* How many values the two tables of a DataCompactor take together.
MaxShared == 4

UrlName(i) == "https://u" \o ToString(i)
LongName(i) == LongText \o ToString(i)
NameOf(kind, i) == IF kind = "url" THEN UrlName(i) ELSE LongName(i)

\* The dictionary of a compactor that interned the values of rank 1..n, in
\* that order, since its construction: the value of rank i holds the code i.
InternedUpTo(kind, n) == {<<NameOf(kind, i), i>> : i \in 1..n}

NearFull == U16Max - Headroom

\* The EfficientCompactor instances the dictionary specification starts from.
NearFullUrls == InternedUpTo("url", NearFull)
NearFullStrings == InternedUpTo("string", NearFull)

EStarts ==
    { EfficientCompactor_new,
      [EfficientCompactor_new EXCEPT !.url_dict = NearFullUrls,
                                     !.next_url_id = NearFull + 1],
      [EfficientCompactor_new EXCEPT !.string_dict = NearFullStrings,
                                     !.next_string_id = NearFull + 1] }

InitDict ==
    /\ input = Obj(<<>>, <<>>)
    /\ engine \in {"E", "T", "D"}
    /\ checks \in IF engine = "E" THEN BOOLEAN ELSE {TRUE}
    /\ ecomp \in IF engine = "E" THEN EStarts ELSE {EfficientCompactor_new}
    /\ eart = NoResult
    /\ erec = NoResult
    /\ tcomp = TrulyEfficientCompactor_new
    /\ tart = NoResult
    /\ trec = NoResult
    /\ first_code = NoCodes
    /\ last_call = NoCall
    /\ inferred = NoTypes
    /\ sizes = NoSizes
    /\ ratio = NoRatios
    /\ tags = NoTags
    /\ dcomp = DataCompactor_new
    /\ dart = NoResult
    /\ drec = NoResult
    /\ race = NoRace

Size(dict) == Cardinality(dict)

\* The dictionary `kind` of the engine of the behaviour, and its other one.
DictOf(kind) ==
    IF engine = "E" THEN (IF kind = "url" THEN ecomp.url_dict ELSE ecomp.string_dict)
    ELSE IF engine = "T" THEN (IF kind = "url" THEN tcomp.url_dict ELSE tcomp.string_dict)
    ELSE (IF kind = "url" THEN dcomp.url_mappings ELSE dcomp.string_mappings)
OtherOf(kind) == DictOf(IF kind = "url" THEN "string" ELSE "url")

\* The number of codes of a dictionary of the engine: 1..MAX of its code type.
\* The u32 counter of DataCompactor has more codes than the integers count
\* here (2^32 - 1), and its calls stop MaxShared values in: the largest
\* integer stands for it.
Capacity == IF engine = "E" THEN U16Max ELSE IF engine = "T" THEN U8Max ELSE 2 ^ 30 + (2 ^ 30 - 1)

\* Whether the calls still hand the dictionary a value it never saw.
CanGrow(kind) ==
    IF engine = "D" THEN Size(DictOf(kind)) + Size(OtherOf(kind)) < MaxShared
    ELSE /\ Size(OtherOf(kind)) <= MaxOther
         /\ Size(DictOf(kind)) < Capacity + MaxBeyond
         /\ engine = "E" => (Size(DictOf(kind)) < MaxFresh \/ Size(DictOf(kind)) >= NearFull)

\* The values a call passes: the next value never interned, or the oldest or
\* the newest of the values the behaviour interned.
Candidates(kind) ==
    LET n == Size(DictOf(kind))
    IN (IF CanGrow(kind) THEN {NameOf(kind, n + 1)} ELSE {})
         \cup ({NameOf(kind, n - Cardinality(DOMAIN first_code[kind]) + 1), NameOf(kind, n)}
                  \cap DOMAIN first_code[kind])

\* The record of a call: what was passed, what came back, whether the value
\* had been interned before, and the size of the dictionary before the call.
Logged(kind, value, id) ==
    /\ last_call' = [dict |-> kind, value |-> value, id |-> id,
                     again |-> value \in DOMAIN first_code[kind],
                     size_before |-> Size(DictOf(kind))]
    /\ first_code' = IF value \in DOMAIN first_code[kind] THEN first_code
                     ELSE [first_code EXCEPT ![kind] = (value :> id) @@ @]

\* EfficientCompactor::intern_url(url, &mut stats)
EInternUrl ==
    /\ engine = "E"
    /\ ~ecomp.panicked
    /\ \E url \in Candidates("url") :
          LET r == intern_url(ecomp, url, NewStats, checks)
          IN ecomp' = r.c /\ Logged("url", url, r.id)
    /\ UNCHANGED <<input, engine, checks, eart, erec, tcomp, tart, trec,
                   inferred, sizes, ratio, tags, dcomp, dart, drec, race>>

\* EfficientCompactor::intern_string(s, &mut stats)
EInternString ==
    /\ engine = "E"
    /\ ~ecomp.panicked
    /\ \E str \in Candidates("string") :
          LET r == intern_string(ecomp, str, NewStats, checks)
          IN ecomp' = r.c /\ Logged("string", str, r.id)
    /\ UNCHANGED <<input, engine, checks, eart, erec, tcomp, tart, trec,
                   inferred, sizes, ratio, tags, dcomp, dart, drec, race>>

\* TrulyEfficientCompactor::compress_value(Value::String(s)) of a URL or of a
\* long string.
TCompressValue ==
    /\ engine = "T"
    /\ \E kind \in {"url", "string"} : \E s \in Candidates(kind) :
          LET r == compress_value(tcomp, Str(s))
          IN tcomp' = r.c /\ Logged(kind, s, r.v.n)
    /\ UNCHANGED <<input, engine, checks, ecomp, eart, erec, tart, trec,
                   inferred, sizes, ratio, tags, dcomp, dart, drec, race>>

\* DataCompactor::compact_value(Value::String(s), &mut stats) of a URL or of
\* a long string.
DCompactValue ==
    /\ engine = "D"
    /\ \E kind \in {"url", "string"} : \E s \in Candidates(kind) :
          LET r == compact_value(dcomp, Str(s), NewCompressionStats)
          IN dcomp' = r.c /\ Logged(kind, s, r.v.n)
    /\ UNCHANGED <<input, engine, checks, ecomp, eart, erec, tcomp, tart, trec,
                   inferred, sizes, ratio, tags, dart, drec, race>>

NextDict == EInternUrl \/ EInternString \/ TCompressValue \/ DCompactValue

SpecDict == InitDict /\ [][NextDict]_vars

(***************************************************************************)
(* The type inference specification: infer_field_type and                  *)
(* infer_compact_type applied to one value.                                *)
(***************************************************************************)
\* How many elements the arrays and objects of the values hold at most.
MaxElements == 3

Prefixes == {"https://", "http://", "http", "htt", "ftp://", "HTTPS://", ""}
Suffixes == {"", "x", "example.com/a b"}

InferValues ==
    {Str(p \o q) : p \in Prefixes, q \in Suffixes}
        \cup {IntV(n) : n \in {-1, 0, 42, 2020}}
        \cup {FloatV(h) : h \in {-50, 250, 314}}
        \cup {Bool(b) : b \in BOOLEAN}
        \cup {Null}
        \cup {Arr([i \in 1..n |-> IntV(i)]) : n \in 0..MaxElements}
        \cup {Arr(<<Str("https://x")>>)}
        \cup {Obj([i \in 1..n |-> SubSeq("abcdefgh", i, i)], [i \in 1..n |-> IntV(i)]) :
                n \in 0..MaxElements}

InitInfer ==
    /\ input \in InferValues
    /\ engine = "none"
    /\ checks = TRUE
    /\ ecomp = EfficientCompactor_new
    /\ eart = NoResult
    /\ erec = NoResult
    /\ tcomp = TrulyEfficientCompactor_new
    /\ tart = NoResult
    /\ trec = NoResult
    /\ first_code = NoCodes
    /\ last_call = NoCall
    /\ inferred = NoTypes
    /\ sizes = NoSizes
    /\ ratio = NoRatios
    /\ tags = NoTags
    /\ dcomp = DataCompactor_new
    /\ dart = NoResult
    /\ drec = NoResult
    /\ race = NoRace

\* EfficientCompactor::infer_field_type(&value)
EInfer ==
    /\ inferred.e = ""
    /\ inferred' = [inferred EXCEPT !.e = infer_field_type(input)]
    /\ UNCHANGED <<input, engine, checks, ecomp, eart, erec, tcomp, tart, trec,
                   first_code, last_call, sizes, ratio, tags, dcomp, dart, drec, race>>

\* TrulyEfficientCompactor::infer_compact_type(&value)
TInfer ==
    /\ inferred.t = ""
    /\ inferred' = [inferred EXCEPT !.t = infer_compact_type(input)]
    /\ UNCHANGED <<input, engine, checks, ecomp, eart, erec, tcomp, tart, trec,
                   first_code, last_call, sizes, ratio, tags, dcomp, dart, drec, race>>

NextInfer == EInfer \/ TInfer

SpecInfer == InitInfer /\ [][NextInfer]_vars

(***************************************************************************)
(* The type tag specification: the tag each engine derives from the type   *)
(* identifiers of two records, which are grouped together exactly when     *)
(* their tags are equal.                                                   *)
(***************************************************************************)
\* The type identifiers of the records.
TagIds ==
    { TypeA, TypeB,
      ClassUrl \o "a",
      ClassUrl \o "a-b-step",
      ClassUrl \o "a-step-b",
      ClassUrl \o "x-stepper-step",
      ClassUrl \o "company-profile-step",
      ClassUrl \o "company-products-step",
      "plain" }

InitTag ==
    /\ input = Obj(<<>>, <<>>)
    /\ engine = "none"
    /\ checks = TRUE
    /\ ecomp = EfficientCompactor_new
    /\ eart = NoResult
    /\ erec = NoResult
    /\ tcomp = TrulyEfficientCompactor_new
    /\ tart = NoResult
    /\ trec = NoResult
    /\ first_code = NoCodes
    /\ last_call = NoCall
    /\ inferred = NoTypes
    /\ sizes = NoSizes
    /\ ratio = NoRatios
    /\ tags \in {[NoTags EXCEPT !.ids = <<a, b>>] : a \in TagIds, b \in TagIds}
    /\ dcomp = DataCompactor_new
    /\ dart = NoResult
    /\ drec = NoResult
    /\ race = NoRace

\* DataCompactor::apply_structural_compaction on the two records.
DTag ==
    /\ tags.ids # <<>>
    /\ tags.d = <<>>
    /\ tags' = [tags EXCEPT !.d = <<structural_type_name(tags.ids[1]),
                                    structural_type_name(tags.ids[2])>>]
    /\ UNCHANGED <<input, engine, checks, ecomp, eart, erec, tcomp, tart, trec,
                   first_code, last_call, inferred, sizes, ratio, dcomp, dart, drec, race>>

\* EfficientCompactor::extract_type_name on the two records.
ETag ==
    /\ tags.ids # <<>>
    /\ tags.e = <<>>
    /\ tags' = [tags EXCEPT !.e = <<extract_type_name(tags.ids[1]),
                                    extract_type_name(tags.ids[2])>>]
    /\ UNCHANGED <<input, engine, checks, ecomp, eart, erec, tcomp, tart, trec,
                   first_code, last_call, inferred, sizes, ratio, dcomp, dart, drec, race>>

\* TrulyEfficientCompactor::shorten_resource_type on the two records.
TTag ==
    /\ tags.ids # <<>>
    /\ tags.t = <<>>
    /\ tags' = [tags EXCEPT !.t = <<shorten_resource_type(tags.ids[1]),
                                    shorten_resource_type(tags.ids[2])>>]
    /\ UNCHANGED <<input, engine, checks, ecomp, eart, erec, tcomp, tart, trec,
                   first_code, last_call, inferred, sizes, ratio, dcomp, dart, drec, race>>

NextTag == DTag \/ ETag \/ TTag

SpecTag == InitTag /\ [][NextTag]_vars

(***************************************************************************)
(* The size accounting specification: the compression ratio each engine    *)
(* computes from the lengths of the original and of the compacted JSON     *)
(* text.  A ratio is kept as its sign: the divisor is positive.            *)
(***************************************************************************)
\* The largest of the small sizes.
MaxSize == 6
\* How many sizes above 2^24, the last integer an f32 holds exactly with
\* all its predecessors, are drawn.
MaxAbove == 3

\* EfficientCompactor::compact_comprehensive_data:
\*   if original_size > 0 { (original_size as f32 - compacted_size as f32)
\*                              / original_size as f32 } else { 0.0 }
compression_ratio_E(original_size, compacted_size) ==
    IF original_size > 0
    THEN [state |-> "ok", sign |-> Sign(AsF32(original_size) - AsF32(compacted_size))]
    ELSE [state |-> "ok", sign |-> 0]

\* TrulyEfficientCompactor::compact: the same expression on orig and comp.
ratio_T(original_size, compact_size) ==
    IF original_size > 0
    THEN [state |-> "ok", sign |-> Sign(AsF32(original_size) - AsF32(compact_size))]
    ELSE [state |-> "ok", sign |-> 0]

\* The lengths of JSON texts: a text is never empty.
Sizes == (1..MaxSize) \cup {2^24 + i : i \in 0..MaxAbove}

InitRatio ==
    /\ input = Obj(<<>>, <<>>)
    /\ engine = "none"
    /\ checks \in BOOLEAN
    /\ ecomp = EfficientCompactor_new
    /\ eart = NoResult
    /\ erec = NoResult
    /\ tcomp = TrulyEfficientCompactor_new
    /\ tart = NoResult
    /\ trec = NoResult
    /\ first_code = NoCodes
    /\ last_call = NoCall
    /\ inferred = NoTypes
    /\ sizes \in [original : Sizes, compacted : Sizes]
    /\ ratio = NoRatios
    /\ tags = NoTags
    /\ dcomp = DataCompactor_new
    /\ dart = NoResult
    /\ drec = NoResult
    /\ race = NoRace

\* The ratio of DataCompactor::compact_comprehensive_data.
DRatio ==
    /\ ratio.d = NoRatio
    /\ ratio' = [ratio EXCEPT !.d = compression_ratio_D(sizes.original, sizes.compacted,
                                                        checks)]
    /\ UNCHANGED <<input, engine, checks, ecomp, eart, erec, tcomp, tart, trec,
                   first_code, last_call, inferred, sizes, tags, dcomp, dart, drec, race>>

\* The ratio of EfficientCompactor::compact_comprehensive_data.
ERatio ==
    /\ ratio.e = NoRatio
    /\ ratio' = [ratio EXCEPT !.e = compression_ratio_E(sizes.original, sizes.compacted)]
    /\ UNCHANGED <<input, engine, checks, ecomp, eart, erec, tcomp, tart, trec,
                   first_code, last_call, inferred, sizes, tags, dcomp, dart, drec, race>>

\* The ratio of TrulyEfficientCompactor::compact.
TRatio ==
    /\ ratio.t = NoRatio
    /\ ratio' = [ratio EXCEPT !.t = ratio_T(sizes.original, sizes.compacted)]
    /\ UNCHANGED <<input, engine, checks, ecomp, eart, erec, tcomp, tart, trec,
                   first_code, last_call, inferred, sizes, tags, dcomp, dart, drec, race>>

NextRatio == DRatio \/ ERatio \/ TRatio

SpecRatio == InitRatio /\ [][NextRatio]_vars

(***************************************************************************)
(* Properties of the pipeline specification.                               *)
(***************************************************************************)
\* The groups of the artifacts, empty before the compaction.
EGroups == IF eart.state = "ok" THEN eart.data.data.resources ELSE <<>>
TGroups == IF tart.state = "ok" THEN tart.data.d ELSE <<>>

\* Every column of every group of the EfficientCompactor artifact has `count` cells.
EColumnsFull ==
    \A t \in DOMAIN EGroups : \A m \in ColumnMaps : \A f \in DOMAIN EGroups[t][m] :
        Len(EGroups[t][m][f]) = EGroups[t].count

\* Every column of every group of the TrulyEfficientCompactor artifact has n cells.
TColumnsFull ==
    \A t \in DOMAIN TGroups : \A f \in DOMAIN TGroups[t].c :
        Len(TGroups[t].c[f]) = TGroups[t].n

\* C1: after a compaction run of either columnar engine, for every input
\* (elements that are no objects or lack a type included), every column of
\* every group has exactly as many cells as the group's recorded count.
C1_ColumnLengths == EColumnsFull /\ TColumnsFull

\* The elements of the input that carry a string resource_type.
IsTyped(r) == AsStr(Get(r, "resource_type")).some
TypedRecords(data) == SelectSeq(Subresources(data), IsTyped)

\* Some one-to-one pairing of the records `orig` with the maps `rec` satisfies
\* Match(original, reconstructed) on every pair.
Paired(orig, rec, Match(_, _)) ==
    /\ Len(rec) = Len(orig)
    /\ \E pi \in Orders(1..Len(orig)) : \A i \in 1..Len(orig) : Match(orig[i], rec[pi[i]])

\* C2: for every list of typed records, compact_comprehensive_data on a fresh
\* compactor followed by reconstruct_data gives, for each original record, a
\* reconstructed record with exactly the same (key, value) pairs, whatever
\* the row order.
C2_RoundTrip ==
    (erec.state = "ok" /\ TypedRecords(input) = Subresources(input))
        => Paired(Subresources(input), erec.subresources,
                  LAMBDA o, r : r = AsMap(o))

\* The scenario of two records of one type whose field "p" holds one URL.
ScenarioP ==
    Obj(<<"subresources">>,
        <<Arr(<<Typed("p", Str(Url1), TypeA), Typed("p", Str(Url1), TypeA)>>)>>)

\* Both reconstructed records hold the field "p" with the URL.
BothHoldP(rec) ==
    /\ Len(rec) = 2
    /\ \A i \in 1..2 : "p" \in DOMAIN rec[i] /\ rec[i]["p"] = Str(Url1)

\* C3: on the scenario, compaction yields exactly one group and exactly one
\* URL-dictionary entry for the URL, and reconstruction yields two records
\* that both hold the field "p" (the original key) with the URL as value.
C3_ScenarioP ==
    input = ScenarioP =>
        /\ eart.state = "ok" =>
              /\ Cardinality(DOMAIN EGroups) = 1
              /\ Cardinality({id \in DOMAIN eart.data.dictionaries.urls :
                                eart.data.dictionaries.urls[id] = Url1}) = 1
        /\ erec.state = "ok" => BothHoldP(erec.subresources)
        /\ tart.state = "ok" =>
              /\ Cardinality(DOMAIN TGroups) = 1
              /\ tart.data.u.some
              /\ Cardinality({id \in DOMAIN tart.data.u.v : tart.data.u.v[id] = Url1}) = 1
        /\ trec.state = "ok" => BothHoldP(trec.subresources)

\* The compaction half of the scenario, which both engines satisfy.
ScenarioPCompacted ==
    input = ScenarioP =>
        /\ eart.state = "ok" =>
              /\ Cardinality(DOMAIN EGroups) = 1
              /\ Cardinality({id \in DOMAIN eart.data.dictionaries.urls :
                                eart.data.dictionaries.urls[id] = Url1}) = 1
        /\ tart.state = "ok" =>
              /\ Cardinality(DOMAIN TGroups) = 1
              /\ Cardinality({id \in DOMAIN tart.data.u.v : tart.data.u.v[id] = Url1}) = 1

\* C6: at the end of a compaction run of EfficientCompactor on a fresh
\* compactor, urls_deduplicated is the number of entries of the URL dictionary
\* and strings_deduplicated the number of entries of the string dictionary,
\* however often each value occurs.
C6_DedupCounters ==
    eart.state = "ok" =>
        /\ eart.data.stats.urls_deduplicated = Cardinality(ecomp.url_dict)
        /\ eart.data.stats.urls_deduplicated
              = Cardinality(DOMAIN eart.data.dictionaries.urls)
        /\ eart.data.stats.strings_deduplicated = Cardinality(ecomp.string_dict)
        /\ eart.data.stats.strings_deduplicated
              = Cardinality(DOMAIN eart.data.dictionaries.strings)

\* A run whose input holds the same long string and the same URL twice: one
\* entry and a count of one for the string.
C6_Witness ==
    /\ eart.state = "ok"
    /\ Subresources(input) = <<Typed("p", Str(LongText), TypeA), Typed("p", Str(LongText), TypeA)>>
    /\ eart.data.stats.strings_deduplicated = 1
    /\ MapKeys(ecomp.string_dict) = {LongText}
    /\ eart.data.stats.urls_deduplicated = 1

\* The fields that another record of the same group carries and o lacks
\* (Group gives the group of a record).
AbsentOptional(o, records, Group(_)) ==
    {f \in UNION {Range(r.ks) : r \in {x \in Range(records) : Group(x) = Group(o)}} :
        ~HasKey(o, f)}

EGroupOf(r) == extract_type_name(AsStr(Get(r, "resource_type")).v)
TGroupOf(r) ==
    shorten_resource_type(IF IsTyped(r) THEN AsStr(Get(r, "resource_type")).v ELSE "unknown")

\* C8: a record that lacks a field another record of its group carries is
\* reconstructed without that field, in both engines and for every column
\* type of the field.
C8_AbsentStaysAbsent ==
    /\ erec.state = "ok" =>
          Paired(TypedRecords(input), erec.subresources,
                 LAMBDA o, r : AbsentOptional(o, TypedRecords(input), EGroupOf)
                                  \cap DOMAIN r = {})
    /\ trec.state = "ok" =>
          Paired(Subresources(input), trec.subresources,
                 LAMBDA o, r : AbsentOptional(o, Subresources(input), TGroupOf)
                                  \cap DOMAIN r = {})

\* C9 as stated: reconstruction gives as many records as the input's
\* subresources array has elements, in both engines.
C9_CountPreserved ==
    /\ trec.state = "ok" => Len(trec.subresources) = Len(Subresources(input))
    /\ erec.state = "ok" => Len(erec.subresources) = Len(Subresources(input))

\* C9, amended: TrulyEfficientCompactor reconstructs as many records as the
\* input has elements; EfficientCompactor as many as the input has elements
\* with a string resource_type.
C9_CountOfGrouped ==
    /\ trec.state = "ok" => Len(trec.subresources) = Len(Subresources(input))
    /\ erec.state = "ok" => Len(erec.subresources) = Len(TypedRecords(input))

\* A reconstruction by EfficientCompactor of an input with an untyped element.
C9_Witness ==
    /\ erec.state = "ok"
    /\ Len(Subresources(input)) = 2
    /\ Len(TypedRecords(input)) = 1
    /\ Len(erec.subresources) = 1

(***************************************************************************)
(* Properties of the dictionary specification.                             *)
(***************************************************************************)
\* No two values of the dictionary hold one code.
Injective(dict) == Cardinality({e[2] : e \in dict}) = Cardinality(MapKeys(dict))

\* Interning a value again returns its first code and adds no entry, and the
\* values of a dictionary within its capacity hold pairwise distinct codes.
InternedOnce ==
    /\ last_call.again =>
          /\ last_call.id = first_code[last_call.dict][last_call.value]
          /\ <<last_call.value, last_call.id>> \in DictOf(last_call.dict)
          /\ Size(DictOf(last_call.dict)) = last_call.size_before
    /\ \A kind \in {"url", "string"} :
          /\ \A x \in DOMAIN first_code[kind] : <<x, first_code[kind][x]>> \in DictOf(kind)
          /\ Size(DictOf(kind)) <= Capacity => Injective(DictOf(kind))

\* C4: within one dictionary of one compactor, interning a value that was
\* interned before returns the code it got the first time and adds no entry,
\* and N distinct values, N up to the number of codes of the code type (65535
\* for u16, 255 for u8), can be interned and then hold N distinct codes: no
\* call that leaves the dictionaries within their capacity fails.
C4_InternOnce ==
    /\ InternedOnce
    /\ (\A kind \in {"url", "string"} : Size(DictOf(kind)) <= Capacity)
          => ~(engine = "E" /\ ecomp.panicked)

\* C5: a dictionary that was handed more distinct values than its code type
\* has codes has reported it (here: the run stopped), and in no reachable
\* state do two values of one dictionary share a code.
C5_ExhaustionReported ==
    \A kind \in {"url", "string"} :
        /\ Injective(DictOf(kind))
        /\ Size(DictOf(kind)) > Capacity => (engine = "E" /\ ecomp.panicked)

(***************************************************************************)
(* Properties of the type inference specification.                         *)
(***************************************************************************)
\* The column type of a value by its shape (none is stated for null); a URL
\* is a string with the scheme http or https.
ShapeType(value) ==
    CASE value.k = "str" ->
            IF StartsWith(value.s, "https://") \/ StartsWith(value.s, "http://")
            THEN {"Url"} ELSE {"Str"}
      [] value.k = "int" -> {"Int"}
      [] value.k = "float" -> {"Float"}
      [] value.k = "bool" -> {"Bool"}
      [] value.k \in {"arr", "obj"} -> {"Json"}
      [] value.k = "null" -> {"Str", "Int", "Float", "Bool", "Url", "Json"}

\* The letter TrulyEfficientCompactor writes for a column type.
TypeLetter(field_type) ==
    CASE field_type = "Str" -> "s" [] field_type = "Int" -> "i"
      [] field_type = "Float" -> "f" [] field_type = "Bool" -> "b"
      [] field_type = "Url" -> "u" [] field_type = "Json" -> "j"

\* C7: the column type is a function of the value's shape and the same in
\* both engines: a URL string is Url, every other string String, an integer
\* Int, a non-integer number Float, a boolean Bool, an array or object Json.
C7_SameClassification ==
    /\ inferred.e # "" => inferred.e \in ShapeType(input)
    /\ inferred.t # "" => inferred.t \in {TypeLetter(ty) : ty \in ShapeType(input)}
    /\ (inferred.e # "" /\ inferred.t # "") => inferred.t = TypeLetter(inferred.e)

(***************************************************************************)
(* Properties of the size accounting specification.                        *)
(***************************************************************************)
\* C10: in all three engines the ratio is computed without underflow or
\* panic, is zero or negative when the compacted text is no shorter than the
\* original, and positive exactly when it is shorter.
C10_RatioNeverFails ==
    \A eng \in {"d", "e", "t"} :
        ratio[eng] # NoRatio =>
            /\ ratio[eng].state = "ok"
            /\ ratio[eng].sign > 0 <=> sizes.compacted < sizes.original

(***************************************************************************)
(* Field names, input shapes and rows of the pipeline specification.       *)
(***************************************************************************)
\* The elements of a list of records that are objects.
ObjectsOf(records) == {r \in Range(records) : r.k = "obj"}

\* The short key EfficientCompactor gives the field key k.
ShortKeyE(k) == abbreviate_property(ecomp, k, NewStats).name

\* The table short key -> field identifier that an artifact carries:
\* dictionaries.properties of EfficientCompactedData; CompactFormat has the
\* members s, d, u, t and stats, none of which maps a short key to a field
\* identifier.
FieldNameTableE(compacted) == compacted.dictionaries.properties
FieldNameTableT(compact_format) == <<>>

\* Every key of the records whose short key differs from it is the entry of
\* its short key in the table.
SelfDescribing(records, Short(_), table) ==
    \A r \in ObjectsOf(records) : \A k \in Range(r.ks) :
        Short(k) # k => (Short(k) \in DOMAIN table /\ table[Short(k)] = k)

\* The half of the claim about the artifact of EfficientCompactor.
ESelfDescribing ==
    eart.state = "ok" =>
        SelfDescribing(TypedRecords(input), ShortKeyE, FieldNameTableE(eart.data))

\* C11: for every column of every group whose short key differs from the
\* field identifier it stands for, the artifact itself holds the entry short
\* key -> identifier, in the artifact of EfficientCompactor and in the
\* artifact of TrulyEfficientCompactor.
C11_SelfDescribing ==
    /\ ESelfDescribing
    /\ tart.state = "ok" =>
          SelfDescribing(Subresources(input), abbreviate_field, FieldNameTableT(tart.data))

\* The sum of the values of a function with a finite domain.
RECURSIVE Total(_)
Total(f) ==
    IF DOMAIN f = {} THEN 0
    ELSE LET x == CHOOSE y \in DOMAIN f : TRUE
         IN f[x] + Total([y \in DOMAIN f \ {x} |-> f[y]])

\* Whether the root holds an array under "subresources".
HasSubresources(data) ==
    Get(data, "subresources").some /\ Get(data, "subresources").v.k = "arr"

\* The half of the claim about EfficientCompactor.
EOmission ==
    /\ eart.state \in {"none", "ok"}
    /\ eart.state = "ok" =>
          /\ ~HasSubresources(input) => DOMAIN EGroups = {}
          /\ Total([t \in DOMAIN EGroups |-> EGroups[t].count]) = Len(TypedRecords(input))
          /\ eart.data.stats.resources_processed = Len(TypedRecords(input))
    /\ erec.state = "ok" => Len(erec.subresources) = Len(TypedRecords(input))

\* C12: a compaction call returns no error because the root has no
\* "subresources" array or a record has no type field; without the array the
\* artifact has no groups, and a record without a string type field is in no
\* group, is not counted in resources_processed and is not reconstructed.
C12_Omission ==
    /\ EOmission
    /\ tart.state \in {"none", "ok"}
    /\ tart.state = "ok" =>
          /\ ~HasSubresources(input) => DOMAIN TGroups = {}
          /\ Total([t \in DOMAIN TGroups |-> TGroups[t].n]) = Len(TypedRecords(input))
    /\ trec.state = "ok" => Len(trec.subresources) = Len(TypedRecords(input))

\* reconstruct_data: the key a column name is expanded to.
ExpandKey(dictionaries, field_name) ==
    IF field_name \in DOMAIN dictionaries.properties
    THEN dictionaries.properties[field_name]
    ELSE field_name

\* C20: for every field key k of an input record of EfficientCompactor, in
\* the static table, outside it, or equal to one of its short keys ("p", "t",
\* "cn"), expanding the short key of k's column with the property table of
\* the artifact yields k.
C20_KeysReversible ==
    eart.state = "ok" =>
        \A r \in ObjectsOf(TypedRecords(input)) : \A k \in Range(r.ks) :
            ExpandKey(eart.data.dictionaries, ShortKeyE(k)) = k

(***************************************************************************)
(* Dictionary codes in cells.                                              *)
(***************************************************************************)
\* The codes the cells of the columns `cols` of a TypedResourceGroup hold.
CodesIn(cols) ==
    UNION {{cols[f][i].v : i \in {j \in DOMAIN cols[f] : cols[f][j].some}} : f \in DOMAIN cols}

\* The half of the claim about the artifact of EfficientCompactor.
ECodesResolve ==
    \A t \in DOMAIN EGroups :
        /\ CodesIn(EGroups[t].str_cols) \subseteq DOMAIN eart.data.dictionaries.strings
        /\ CodesIn(EGroups[t].json_cols) \subseteq DOMAIN eart.data.dictionaries.strings
        /\ CodesIn(EGroups[t].url_cols) \subseteq DOMAIN eart.data.dictionaries.urls

\* The numbers the cells of the column f of a TabularData hold.  A cell of a
\* column of type 'u' or 's' is a number exactly when it refers to a
\* dictionary (a short string is kept as a string).
NumbersIn(tabular, f) ==
    {tabular.c[f][i].n : i \in {j \in DOMAIN tabular.c[f] : tabular.c[f][j].k = "int"}}

\* The keys of a dictionary of a CompactFormat, which is None when empty.
KeysOf(dictionary) == IF dictionary.some THEN DOMAIN dictionary.v ELSE {}

\* C13: every dictionary code stored in a cell of a String, Url or Json
\* column of an artifact is a key of the corresponding dictionary of that
\* artifact, for the artifacts of EfficientCompactor and of
\* TrulyEfficientCompactor on any input.
C13_CodesResolve ==
    /\ ECodesResolve
    /\ \A t \in DOMAIN TGroups : \A f \in DOMAIN TGroups[t].c :
          /\ tart.data.s.types[f] = "u" => NumbersIn(TGroups[t], f) \subseteq KeysOf(tart.data.u)
          /\ tart.data.s.types[f] = "s" => NumbersIn(TGroups[t], f) \subseteq KeysOf(tart.data.t)

(***************************************************************************)
(* Properties of the repeated-run specification.                           *)
(***************************************************************************)
\* The strings that occur in a value, at any depth.
RECURSIVE StringsIn(_)
StringsIn(v) ==
    CASE v.k = "str" -> {v.s}
      [] v.k \in {"arr", "obj"} -> UNION {StringsIn(v.a[i]) : i \in DOMAIN v.a}
      [] OTHER -> {}

\* The values a dictionary can hold for an input: the strings of its records
\* and the JSON texts of their field values.
Occurring(data) ==
    UNION {StringsIn(r) \cup {ToJson(r.a[i]) : i \in DOMAIN r.a} :
             r \in ObjectsOf(Subresources(data))}

\* The stats of a run of a fresh EfficientCompactor on the input (the
\* counters do not depend on the iteration orders).
FreshStats(data) ==
    compact_comprehensive_data(EfficientCompactor_new, data,
                               CHOOSE types \in GroupOrders(data) : TRUE,
                               CHOOSE fields \in FieldOrders(EfficientCompactor_new, data) : TRUE,
                               checks).stats

\* C14: when a compaction method is called a second time on one compactor,
\* the dictionaries of the second artifact hold entries only for values that
\* occur in the second input, and the dedup counters of the second run count
\* every distinct value of the second input once, as a fresh compactor does.
C14_RunsIndependent ==
    /\ (engine = "EE" /\ eart.state = "ok") =>
          /\ Range(eart.data.dictionaries.urls) \subseteq Occurring(input)
          /\ Range(eart.data.dictionaries.strings) \subseteq Occurring(input)
          /\ eart.data.stats.urls_deduplicated = FreshStats(input).urls_deduplicated
          /\ eart.data.stats.strings_deduplicated = FreshStats(input).strings_deduplicated
    /\ (engine = "TT" /\ tart.state = "ok") =>
          /\ tart.data.u.some => Range(tart.data.u.v) \subseteq Occurring(input)
          /\ tart.data.t.some => Range(tart.data.t.v) \subseteq Occurring(input)

\* Within the first run on a fresh compactor the same statement holds.
FirstRunOwnValues ==
    /\ (engine = "E" /\ eart.state = "ok") =>
          /\ Range(eart.data.dictionaries.urls) \subseteq Occurring(input)
          /\ Range(eart.data.dictionaries.strings) \subseteq Occurring(input)
          /\ eart.data.stats.urls_deduplicated = FreshStats(input).urls_deduplicated
    /\ (engine = "T" /\ tart.state = "ok") =>
          /\ tart.data.u.some => Range(tart.data.u.v) \subseteq Occurring(input)
          /\ tart.data.t.some => Range(tart.data.t.v) \subseteq Occurring(input)

(***************************************************************************)
(* Column types and cells of the pipeline specification.                   *)
(***************************************************************************)
FieldTypes == {"Str", "Int", "Float", "Bool", "Url", "Json"}

\* The rows of a group as the assembler of each engine fills them: the
\* records of the group that are objects, in the order of the group.
IsObject(r) == r.k = "obj"
ERows(t) == SelectSeq(GroupsOf(input)[t], IsObject)
TRows(t) == SelectSeq(GroupedOf(input)[t], IsObject)

\* The values the record r carries for the column f (Short gives the column
\* of a key), and whether it carries one.
Carried(r, Short(_), f) == {r.a[j] : j \in {i \in DOMAIN r.ks : Short(r.ks[i]) = f}}
Carries(r, Short(_), f) == Carried(r, Short, f) # {}

\* The value of the first record, in the order of the group, that carries
\* the column f.
FirstCarried(rows, Short(_), f) ==
    LET i == CHOOSE j \in DOMAIN rows :
                /\ Carries(rows[j], Short, f)
                /\ \A h \in 1..(j - 1) : ~Carries(rows[h], Short, f)
    IN CHOOSE v \in Carried(rows[i], Short, f) : TRUE

\* The type of the column f of a TypedResourceGroup: the map that holds it.
EColumnType(group, f) == CHOOSE ty \in FieldTypes : f \in DOMAIN group[ColsOf(ty)]
EColumns(group) == UNION {DOMAIN group[m] : m \in ColumnMaps}
ECell(group, f, i) == group[ColsOf(EColumnType(group, f))][f][i]

\* A value that no conversion takes to the column type: a value that is no
\* string for a String or Url column, no integer for an Int column, no number
\* for a Float column, no boolean for a Bool column.
Unconvertible(v, ty) ==
    CASE ty \in {"Str", "Url"} -> v.k # "str"
      [] ty = "Int" -> v.k # "int"
      [] ty = "Float" -> v.k \notin {"int", "float"}
      [] ty = "Bool" -> v.k # "bool"
      [] ty = "Json" -> FALSE

\* The column type a type letter of TrulyEfficientCompactor stands for.
TypeOfLetter(letter) == CHOOSE ty \in FieldTypes : TypeLetter(ty) = letter

\* EfficientCompactor: the first record that carries a field decides the type
\* of its column.
EFirstDecides ==
    \A t \in DOMAIN EGroups : \A f \in EColumns(EGroups[t]) :
        EColumnType(EGroups[t], f) = infer_field_type(FirstCarried(ERows(t), ShortKeyE, f))

\* EfficientCompactor: a value that cannot be converted to the type of its
\* column is stored as a null cell.
ENullForOtherShape ==
    \A t \in DOMAIN EGroups : \A f \in EColumns(EGroups[t]) : \A i \in DOMAIN ERows(t) :
        \A v \in Carried(ERows(t)[i], ShortKeyE, f) :
            Unconvertible(v, EColumnType(EGroups[t], f))
                => (EColumnType(EGroups[t], f) # "Bool" /\ ~ECell(EGroups[t], f, i).some)

\* TrulyEfficientCompactor: the first record that carries a field decides the
\* type of its column.
TFirstDecides ==
    \A t \in DOMAIN TGroups : \A f \in DOMAIN TGroups[t].c :
        tart.data.s.types[f] = infer_compact_type(FirstCarried(TRows(t), abbreviate_field, f))

\* TrulyEfficientCompactor: a value that cannot be converted to the type the
\* first record gave its column is stored as a null cell.
TNullForOtherShape ==
    \A t \in DOMAIN TGroups : \A f \in DOMAIN TGroups[t].c : \A i \in DOMAIN TRows(t) :
        \A v \in Carried(TRows(t)[i], abbreviate_field, f) :
            Unconvertible(v, TypeOfLetter(infer_compact_type(
                                 FirstCarried(TRows(t), abbreviate_field, f))))
                => TGroups[t].c[f][i].k = "null"

\* C15: when the records of a group carry values of different shapes for one
\* field, the column type is the type inferred from the first record, in
\* group order, that carries the field, a later record whose value cannot be
\* converted to that type contributes a null cell, and the run does not fail.
C15_FirstRecordDecides ==
    /\ eart.state # "panic"
    /\ EFirstDecides
    /\ ENullForOtherShape
    /\ TFirstDecides
    /\ TNullForOtherShape

\* C16: for every group, infer_schema lists a field as required exactly when
\* every record of the group carries it and as optional otherwise; required
\* and optional are disjoint and together hold every field that a record of
\* the group carries.
C16_SchemaPartition ==
    \A t \in DOMAIN EGroups :
        LET schema == eart.data.schema.resource_types[t]
            rows == GroupsOf(input)[t]
            carried == UNION {Range(r.ks) : r \in ObjectsOf(rows)}
            everywhere == {k \in carried : \A i \in DOMAIN rows : HasKey(rows[i], k)}
        IN /\ schema.required = everywhere
           /\ schema.optional = carried \ everywhere
           /\ schema.required \cap schema.optional = {}
           /\ schema.required \cup schema.optional = carried

\* A group of two records, one with the field "p" and one with the field
\* "flag": the type field is required, the two others are optional.
C16_Witness ==
    /\ eart.state = "ok"
    /\ Subresources(input) = <<Typed("p", Str(Url1), TypeA), Typed("flag", Bool(TRUE), TypeA)>>
    /\ eart.data.schema.resource_types["a"].required = {"resource_type"}
    /\ eart.data.schema.resource_types["a"].optional = {"p", "flag"}

\* The cell of a column of type ty of EfficientCompactor that stores the
\* value v: the literal, or the code of the string (of the JSON text) in the
\* dictionary of the artifact.
EStores(cell, v, ty, dictionaries) ==
    CASE ty = "Int" -> cell = Some(v.n)
      [] ty = "Float" -> cell = Some(IF v.k = "int" THEN v.n * 100 ELSE v.n)
      [] ty = "Bool" -> cell = v.b
      [] ty = "Str" -> /\ cell.some
                       /\ cell.v \in DOMAIN dictionaries.strings
                       /\ dictionaries.strings[cell.v] = v.s
      [] ty = "Url" -> /\ cell.some
                       /\ cell.v \in DOMAIN dictionaries.urls
                       /\ dictionaries.urls[cell.v] = v.s
      [] ty = "Json" -> /\ cell.some
                        /\ cell.v \in DOMAIN dictionaries.strings
                        /\ dictionaries.strings[cell.v] = ToJson(v)

\* The policy in the columns of EfficientCompactor.
EAbsentPolicy ==
    /\ eart.state # "panic"
    /\ \A t \in DOMAIN EGroups : \A f \in EColumns(EGroups[t]) : \A i \in DOMAIN ERows(t) :
          LET ty == EColumnType(EGroups[t], f)
              cell == ECell(EGroups[t], f, i)
          IN /\ ~Carries(ERows(t)[i], ShortKeyE, f) =>
                    IF ty = "Bool" THEN cell = FALSE ELSE ~cell.some
             /\ \A v \in Carried(ERows(t)[i], ShortKeyE, f) :
                    ~Unconvertible(v, ty) => EStores(cell, v, ty, eart.data.dictionaries)

\* The cell of a column of TrulyEfficientCompactor that stores the value v:
\* the value, the code of the string in a dictionary of the artifact, or the
\* array of the cells of its elements.
TStores(cell, v, compact_format) ==
    \/ cell = v
    \/ /\ v.k = "str"
       /\ cell.k = "int"
       /\ \/ compact_format.u.some /\ cell.n \in DOMAIN compact_format.u.v
                                   /\ compact_format.u.v[cell.n] = v.s
          \/ compact_format.t.some /\ cell.n \in DOMAIN compact_format.t.v
                                   /\ compact_format.t.v[cell.n] = v.s
    \/ v.k = "arr" /\ cell.k = "arr" /\ Len(cell.a) = Len(v.a)

\* The cells of TrulyEfficientCompactor for the values a record carries.
TStoresCarried ==
    \A t \in DOMAIN TGroups : \A f \in DOMAIN TGroups[t].c : \A i \in DOMAIN TRows(t) :
        \A v \in Carried(TRows(t)[i], abbreviate_field, f) :
            TStores(TGroups[t].c[f][i], v, tart.data)

\* TrulyEfficientCompactor stores a null cell for an absent field in a column
\* of every type, Bool included.
TAbsentNull ==
    \A t \in DOMAIN TGroups : \A f \in DOMAIN TGroups[t].c : \A i \in DOMAIN TRows(t) :
        ~Carries(TRows(t)[i], abbreviate_field, f) => TGroups[t].c[f][i] = Null

\* C17: for a row whose record does not carry the field of a column, a Bool
\* column stores the literal false and a column of any other type a null
\* cell; a record that carries the field with a convertible value stores the
\* value or its dictionary code; no case raises an error.  In both columnar
\* engines.
C17_AbsentCells ==
    /\ EAbsentPolicy
    /\ TStoresCarried
    /\ \A t \in DOMAIN TGroups : \A f \in DOMAIN TGroups[t].c : \A i \in DOMAIN TRows(t) :
          ~Carries(TRows(t)[i], abbreviate_field, f) =>
              TGroups[t].c[f][i] = (IF tart.data.s.types[f] = "b" THEN Bool(FALSE) ELSE Null)

\* The values an element of a group carries for the column f: none when the
\* element is no object.
CarriedBy(r, Short(_), f) == IF IsObject(r) THEN Carried(r, Short, f) ELSE {}

\* EfficientCompactor: row i of every column is derived from the i-th record
\* of the group.
ERowsAligned ==
    \A t \in DOMAIN EGroups : \A f \in EColumns(EGroups[t]) :
        LET records == GroupsOf(input)[t]
            ty == EColumnType(EGroups[t], f)
            column == EGroups[t][ColsOf(ty)][f]
        IN /\ DOMAIN column = DOMAIN records
           /\ \A i \in DOMAIN records :
                 /\ CarriedBy(records[i], ShortKeyE, f) = {} =>
                        IF ty = "Bool" THEN column[i] = FALSE ELSE ~column[i].some
                 /\ \A v \in CarriedBy(records[i], ShortKeyE, f) :
                        ~Unconvertible(v, ty)
                            => EStores(column[i], v, ty, eart.data.dictionaries)

\* C18: within a group, the cell at row i of every column is derived from the
\* i-th record, in input order, that classification assigned to the group, for
\* every input, also one in which elements of the subresources array are no
\* objects.
C18_RowsAligned ==
    /\ ERowsAligned
    /\ \A t \in DOMAIN TGroups : \A f \in DOMAIN TGroups[t].c :
          LET records == GroupedOf(input)[t]
              column == TGroups[t].c[f]
          IN /\ DOMAIN column = DOMAIN records
             /\ \A i \in DOMAIN records \cap DOMAIN column :
                   /\ CarriedBy(records[i], abbreviate_field, f) = {} => column[i] = Null
                   /\ \A v \in CarriedBy(records[i], abbreviate_field, f) :
                          TStores(column[i], v, tart.data)

\* The rows of TrulyEfficientCompactor are aligned when every element of the
\* input is an object.
TRowsAlignedForObjects ==
    (\A i \in DOMAIN Subresources(input) : IsObject(Subresources(input)[i])) =>
        \A t \in DOMAIN TGroups : \A f \in DOMAIN TGroups[t].c :
            LET records == GroupedOf(input)[t]
                column == TGroups[t].c[f]
            IN /\ DOMAIN column = DOMAIN records
               /\ \A i \in DOMAIN records :
                     /\ CarriedBy(records[i], abbreviate_field, f) = {} => column[i] = Null
                     /\ \A v \in CarriedBy(records[i], abbreviate_field, f) :
                            TStores(column[i], v, tart.data)

(***************************************************************************)
(* Properties of the type tag specification.                               *)
(***************************************************************************)
\* str::ends_with
EndsWith(s, p) == Len(s) >= Len(p) /\ SubSeq(s, Len(s) - Len(p) + 1, Len(s)) = p

\* The tag of a type identifier by the rule: the last '/'-separated segment, a
\* trailing "-step" removed, every hyphen replaced by an underscore.
TagRule(id) ==
    LET segment == LastOf(Split(id, "/"))
        stem == IF EndsWith(segment, "-step")
                THEN SubSeq(segment, 1, Len(segment) - Len("-step"))
                ELSE segment
    IN Replace(stem, "-", "_")

\* The tags of an engine follow the rule, and the two records share a group
\* exactly when the rule gives them one tag.
FollowsRule(derived) ==
    derived # <<>> =>
        /\ \A i \in 1..2 : derived[i] = TagRule(tags.ids[i])
        /\ derived[1] = derived[2] <=> TagRule(tags.ids[1]) = TagRule(tags.ids[2])

\* C19: in all three engines the tag of a type identifier is its last
\* '/'-separated segment with a trailing "-step" removed (no other occurrence
\* removed, nothing truncated) and every hyphen replaced by an underscore, and
\* two records are in one group exactly when their identifiers have one tag
\* under this rule.
C19_TagDerivation == FollowsRule(tags.d) /\ FollowsRule(tags.e) /\ FollowsRule(tags.t)

\* The engines follow the rule on identifiers whose last segment holds
\* "-step" at its end only, and in TrulyEfficientCompactor has a tag of at
\* most 8 characters.
TagOfPlainIds ==
    LET plain == {TypeA, TypeB, ClassUrl \o "a", ClassUrl \o "a-b-step", "plain"}
    IN (tags.ids # <<>> /\ Range(tags.ids) \subseteq plain) =>
          FollowsRule(tags.d) /\ FollowsRule(tags.e) /\ FollowsRule(tags.t)

(***************************************************************************)
(* Values, orders and counters of the pipeline specification.              *)
(***************************************************************************)
IsScalar(v) == v.k \notin {"arr", "obj"}

\* C22: in TrulyEfficientCompactor, for every scalar value v of an input
\* record, decompress_value applied to the cell compress_value produced for v
\* returns v: a URL cell gives the URL, a long-string cell the string (not an
\* entry of the URL dictionary with the same code), and a literal integer the
\* same integer, never an entry of a dictionary.
C22_ValueRoundTrip ==
    \A t \in DOMAIN TGroups : \A f \in DOMAIN TGroups[t].c : \A i \in DOMAIN TRows(t) :
        \A v \in Carried(TRows(t)[i], abbreviate_field, f) :
            IsScalar(v) => decompress_value(TGroups[t].c[f][i], tart.data) = v

\* The round trip of the values that are URLs, short strings, floats,
\* booleans or nulls, which holds.
UrlsRoundTrip ==
    \A t \in DOMAIN TGroups : \A f \in DOMAIN TGroups[t].c : \A i \in DOMAIN TRows(t) :
        \A v \in Carried(TRows(t)[i], abbreviate_field, f) :
            (IsScalar(v) /\ v.k # "int" /\ ~(v.k = "str" /\ ~StartsWith(v.s, "http")
                                                /\ Len(v.s) > LongStringLen))
                => decompress_value(TGroups[t].c[f][i], tart.data) = v

\* The artifacts a fresh compactor of each engine can produce for an input:
\* one for each order in which the groups and the fields of each group are
\* iterated.
EArtifacts(data) ==
    {EfficientCompactedData(r, CHOOSE urls \in ReverseDicts(r.c.url_dict) : TRUE,
                            CHOOSE strings \in ReverseDicts(r.c.string_dict) : TRUE) :
        r \in {compact_comprehensive_data(EfficientCompactor_new, data, types, fields, checks) :
                  types \in GroupOrders(data),
                  fields \in FieldOrders(EfficientCompactor_new, data)}}

TArtifacts(data) ==
    {CompactFormat(r, CHOOSE urls \in ReverseDicts(r.c.url_dict) : TRUE,
                   CHOOSE strings \in ReverseDicts(r.c.string_dict) : TRUE) :
        r \in {compact(TrulyEfficientCompactor_new, data, types, fields) :
                  types \in GroupOrdersT(data), fields \in FieldOrdersT(data)}}

\* The sets of records reconstruction can return for an input.
ERecordSets(data) ==
    UNION {{Range(reconstruct_data(a, types)) : types \in Orders(DOMAIN a.data.resources)} :
             a \in EArtifacts(data)}

\* C23: for a fixed input and a fresh compactor, the artifact (the codes of
\* the values, the codes in the cells, the type of each column) and the set
\* of reconstructed records are the same for every order in which the engine
\* may iterate over its groups and over the fields of a group.
C23_Reproducible ==
    /\ eart.state = "ok" => EArtifacts(input) = {eart.data}
    /\ tart.state = "ok" => TArtifacts(input) = {tart.data}
    /\ erec.state = "ok" => ERecordSets(input) = {Range(erec.subresources)}

\* The set of records EfficientCompactor reconstructs does not depend on the
\* orders.
ERecordsReproducible ==
    erec.state = "ok" => ERecordSets(input) = {Range(erec.subresources)}

\* C27: after compact_comprehensive_data of EfficientCompactor on any input,
\* stats.resources_processed is the sum of count over the groups of the
\* artifact and the number of elements of the subresources array that have a
\* string type field.
C27_ProcessedCounter ==
    eart.state = "ok" =>
        /\ eart.data.stats.resources_processed
              = Total([t \in DOMAIN EGroups |-> EGroups[t].count])
        /\ eart.data.stats.resources_processed = Len(TypedRecords(input))

\* A run on two typed records of one group and a run on a typed record next
\* to a number.
C27_Witness ==
    /\ eart.state = "ok"
    /\ \/ /\ Subresources(input) = <<Typed("p", Str(Url1), TypeA), IntV(5)>>
          /\ eart.data.stats.resources_processed = 1
       \/ /\ Subresources(input) = <<Typed("p", Str(Url1), TypeA), Typed("flag", Bool(TRUE), TypeA)>>
          /\ eart.data.stats.resources_processed = 2
          /\ EGroups["a"].count = 2

\* EfficientCompactor reconstructs every typed record with its own type.
ETypeRestored ==
    erec.state = "ok" =>
        Paired(TypedRecords(input), erec.subresources,
               LAMBDA o, r : /\ "resource_type" \in DOMAIN r
                             /\ r["resource_type"] = Get(o, "resource_type").v)

\* C28: for every input record whose "resource_type" is a string, the record
\* reconstructed by either engine carries "resource_type" equal to the
\* original identifier, also when the identifier does not fit the template,
\* and a record that had no "resource_type" does not gain one.
C28_TypeRestored ==
    /\ ETypeRestored
    /\ trec.state = "ok" =>
          Paired(Subresources(input), trec.subresources,
                 LAMBDA o, r :
                    IF IsTyped(o)
                    THEN /\ "resource_type" \in DOMAIN r
                         /\ r["resource_type"] = Get(o, "resource_type").v
                    ELSE "resource_type" \notin DOMAIN r)

\* TrulyEfficientCompactor reconstructs every typed record with its own type.
TTypeRestored ==
    trec.state = "ok" =>
        Paired(Subresources(input), trec.subresources,
               LAMBDA o, r : IsTyped(o) => /\ "resource_type" \in DOMAIN r
                                           /\ r["resource_type"] = Get(o, "resource_type").v)

(***************************************************************************)
(* Field keys: TrulyEfficientCompactor on one record of one or two fields, *)
(* the keys drawn from the fixed table of abbreviate_field and from the    *)
(* keys its heuristic shortens.                                            *)
(***************************************************************************)
\* Field keys in the order a JSON object lists them (sorted).
FieldKeys ==
    << "company-name",
       "description",
       CommonProperty \o "company-name",
       "https://x.io/property/legal-seat",
       "https://x.io/property/legal-status",
       "https://x.io/property/tax-form",
       "id",
       "name_first",
       "name_last",
       "turtle_format" >>

\* {"subresources": [record]} for a record of one or two fields.
KeyInputs ==
    {Obj(<<"subresources">>, <<Arr(<<Obj(<<FieldKeys[i]>>, <<IntV(1)>>)>>)>>) :
        i \in DOMAIN FieldKeys}
    \cup UNION {{Obj(<<"subresources">>,
                     <<Arr(<<Obj(<<FieldKeys[i], FieldKeys[j]>>, <<IntV(1), IntV(2)>>)>>)>>) :
                   j \in (i + 1)..Len(FieldKeys)} : i \in DOMAIN FieldKeys}

InitKeys ==
    /\ input \in KeyInputs
    /\ engine = "none"
    /\ checks = TRUE
    /\ ecomp = EfficientCompactor_new
    /\ eart = NoResult
    /\ erec = NoResult
    /\ tcomp = TrulyEfficientCompactor_new
    /\ tart = NoResult
    /\ trec = NoResult
    /\ first_code = NoCodes
    /\ last_call = NoCall
    /\ inferred = NoTypes
    /\ sizes = NoSizes
    /\ ratio = NoRatios
    /\ tags = NoTags
    /\ dcomp = DataCompactor_new
    /\ dart = NoResult
    /\ drec = NoResult
    /\ race = NoRace

NextKeys == TCompact \/ TReconstruct

SpecKeys == InitKeys /\ [][NextKeys]_vars

\* The keys abbreviate_field matches by one of its fixed arms.
FixedTable(key) ==
    \/ key \in {AtomicProperty \o "isA", AtomicProperty \o "parent",
                AtomicProperty \o "lastCommit",
                "url", "resource_type", "json_format", "json_ad_format", "turtle_format",
                "fetch_errors"}
    \/ \E part \in {"company-name", "company-description", "business-website",
                    "year-of-incorporation", "country-of-registration",
                    "registration-number"} : Contains(key, part)

\* The keys abbreviate_field shortens by its heuristic: the initials of the
\* words after "/property/", or the first four characters of a longer key.
Heuristic(key) == ~FixedTable(key) /\ (Contains(key, "/property/") \/ Len(key) > ShortKeyLen)

\* The field keys of the records of the input.
RecordKeys == UNION {Range(r.ks) : r \in {x \in Range(Subresources(input)) : x.k = "obj"}}

\* C21: for every field key outside the fixed table that abbreviate_field
\* shortens by its heuristic, expand_field_name applied to the short key
\* returns the short key unchanged, never the canonical identifier of another
\* field, and the reconstructed record carries the field under the short key.
C21_HeuristicKeysStay ==
    \A key \in RecordKeys :
        Heuristic(key) =>
            /\ expand_field_name(abbreviate_field(key)) = abbreviate_field(key)
            /\ trec.state = "ok" =>
                  \A i \in DOMAIN trec.subresources :
                      abbreviate_field(key) \in DOMAIN trec.subresources[i]

\* The same for the keys whose short key has four characters.
TruncatedKeysStay ==
    \A key \in RecordKeys :
        (Heuristic(key) /\ Len(abbreviate_field(key)) = ShortKeyLen) =>
            expand_field_name(abbreviate_field(key)) = abbreviate_field(key)

\* C29: within a group of TrulyEfficientCompactor two distinct field keys of
\* one record are never mapped by abbreviate_field to the same short key, so
\* every field has its own cell and no field value is left out of the
\* artifact.
C29_OwnColumn ==
    tart.state = "ok" =>
        \A r \in {x \in Range(Subresources(input)) : x.k = "obj"} :
            /\ \A i, j \in DOMAIN r.ks :
                  i # j => abbreviate_field(r.ks[i]) # abbreviate_field(r.ks[j])
            /\ \A t \in DOMAIN TGroups :
                  r \in Range(TRows(t)) =>
                      Cardinality(DOMAIN TGroups[t].c) >= Len(r.ks)

(***************************************************************************)
(* Properties of DataCompactor in the pipeline specification.              *)
(***************************************************************************)
HasSubresourcesArray ==
    Get(input, "subresources").some /\ Get(input, "subresources").v.k = "arr"

\* The artifact has "subresources_grouped" in place of "subresources": an
\* object with one key for each type name, holding the compacted typed
\* records of that name in the order of the input.
GroupedShape ==
    LET grouped == Get(dart.data.data, "subresources_grouped")
        typed == StructuralRecords(input)
    IN /\ ~HasKey(dart.data.data, "subresources")
       /\ grouped.some /\ grouped.v.k = "obj"
       /\ Range(grouped.v.ks) = {StructuralTag(x) : x \in Range(typed)}
       /\ \A i, j \in DOMAIN grouped.v.ks : grouped.v.ks[i] = grouped.v.ks[j] => i = j
       /\ \A i \in DOMAIN grouped.v.ks :
             LET same == SelectSeq(typed, LAMBDA x : StructuralTag(x) = grouped.v.ks[i])
             IN /\ grouped.v.a[i].k = "arr"
                /\ grouped.v.a[i].a
                      = [j \in DOMAIN same |->
                            compact_value(dcomp, same[j], NewCompressionStats).v]

\* decompress leaves the grouping in place.
StaysGrouped ==
    /\ drec.data.k = "obj"
    /\ HasKey(drec.data, "subresources_grouped")
    /\ ~HasKey(drec.data, "subresources")

\* C25: for an input whose root has a "subresources" array,
\* DataCompactor.compact_comprehensive_data removes "subresources" and adds
\* "subresources_grouped", which maps each type name to the array of the
\* typed records of that name in input order, each typed record once, and
\* DataCompactor.decompress keeps "subresources_grouped" and does not
\* restore "subresources".
C25_StructuralOneWay ==
    (engine = "D" /\ HasSubresourcesArray) =>
        /\ dart.state = "ok"
        /\ GroupedShape
        /\ drec.state = "ok" => StaysGrouped

\* The same of the calls that returned.
GroupedWhenReturned ==
    (engine = "D" /\ HasSubresourcesArray /\ dart.state = "ok") =>
        /\ GroupedShape
        /\ drec.state = "ok" => StaysGrouped

\* C30: in DataCompactor the URL table and the string table draw their
\* codes from one counter, so in every reachable state no code is a key of
\* both url_lookup and string_lookup, and decompress_value resolves every
\* code compact_value produced to the value interned under it, whichever
\* table holds it.
C30_SharedCounter ==
    /\ {e[2] : e \in dcomp.url_mappings} \cap {e[2] : e \in dcomp.string_mappings} = {}
    /\ dart.state = "ok" =>
          /\ DOMAIN dart.data.url_lookup \cap DOMAIN dart.data.string_lookup = {}
          /\ \A e \in dcomp.url_mappings \cup dcomp.string_mappings :
                decompress_value_D(dcomp, IntV(e[2]), dart.data.url_lookup,
                                   dart.data.string_lookup) = Str(e[1])

\* An artifact whose two tables both hold a code, decompressed.
C30_Witness ==
    /\ dart.state = "ok"
    /\ drec.state = "ok"
    /\ dcomp.url_mappings # {}
    /\ dcomp.string_mappings # {}
    /\ dcomp.next_id = 3


(***************************************************************************)
(* The codes of the dictionaries, in the dictionary specification.         *)
(***************************************************************************)
Codes(dict) == {e[2] : e \in dict}

\* The code the counter of the dictionary `kind` gives next.
NextCode(kind) ==
    IF engine = "E" THEN (IF kind = "url" THEN ecomp.next_url_id ELSE ecomp.next_string_id)
    ELSE IF engine = "T"
         THEN (IF kind = "url" THEN tcomp.next_url_id ELSE tcomp.next_string_id)
         ELSE dcomp.next_id

\* The entries that draw their codes from the counter of the dictionary
\* `kind`: its own, and in DataCompactor those of the other table too.
CountedBy(kind) == IF engine = "D" THEN DictOf(kind) \cup OtherOf(kind) ELSE DictOf(kind)

\* C24: in every reachable state of a compactor, each dictionary that holds
\* k distinct values, k below its capacity, holds exactly the codes 1..k, a
\* value interned later never has a smaller code than one interned before,
\* and the next code is k + 1; in DataCompactor, whose URL and string tables
\* share one counter, the codes of both tables together are exactly 1..k.
C24_CodesFromOne ==
    \A kind \in {"url", "string"} :
        LET k == Size(CountedBy(kind))
        IN k < Capacity =>
              /\ Codes(CountedBy(kind)) = 1..k
              /\ NextCode(kind) = k + 1
              /\ (last_call.dict = kind /\ ~last_call.again) =>
                    /\ last_call.id = k
                    /\ \A e \in CountedBy(kind) : e[2] <= last_call.id

\* A DataCompactor whose two tables hold three values, the last one new.
C24_Witness ==
    /\ engine = "D"
    /\ dcomp.url_mappings # {}
    /\ dcomp.string_mappings # {}
    /\ dcomp.next_id = 4
    /\ last_call.dict # "none" /\ ~last_call.again

(***************************************************************************)
(* Two callers of intern_url, each call taken one statement at a time:     *)
(* the lookup, the read of next_url_id, the insert, the increment.  The    *)
(* callers work on one instance, aliased between them, or each on an       *)
(* instance of its own.  intern_url takes &mut self, so the statements of  *)
(* two calls on one instance interleave only where the exclusive borrow is *)
(* circumvented; on instances of their own the calls are independent.      *)
(***************************************************************************)
\* How many calls each caller makes.
MaxCalls == 2

RaceUrls == {Url1, "https://u2"}

\* A faulty assignment of instances, which hands every caller the first one.
InstanceOf_AlwaysFirst(p) == 1

\* The instance the caller p works on.
InstanceOf(p) == IF race.shared THEN 1 ELSE p

Idle == [pc |-> "idle", url |-> "", id |-> 0, calls |-> 0]

InitRace ==
    /\ input = Obj(<<>>, <<>>)
    /\ engine = "E"
    /\ checks = TRUE
    /\ ecomp = EfficientCompactor_new
    /\ eart = NoResult
    /\ erec = NoResult
    /\ tcomp = TrulyEfficientCompactor_new
    /\ tart = NoResult
    /\ trec = NoResult
    /\ first_code = NoCodes
    /\ last_call = NoCall
    /\ inferred = NoTypes
    /\ sizes = NoSizes
    /\ ratio = NoRatios
    /\ tags = NoTags
    /\ dcomp = DataCompactor_new
    /\ dart = NoResult
    /\ drec = NoResult
    /\ race \in {[shared |-> TRUE, comp |-> <<EfficientCompactor_new>>,
                  proc |-> <<Idle, Idle>>],
                 [shared |-> FALSE, comp |-> <<EfficientCompactor_new, EfficientCompactor_new>>,
                  proc |-> <<Idle, Idle>>]}

Others == <<input, engine, checks, ecomp, eart, erec, tcomp, tart, trec, first_code,
            last_call, inferred, sizes, ratio, tags, dcomp, dart, drec>>

\* A caller enters intern_url(url, ..).
RaceCall ==
    \E p \in DOMAIN race.proc, url \in RaceUrls :
        /\ race.proc[p].pc = "idle"
        /\ race.proc[p].calls < MaxCalls
        /\ race' = [race EXCEPT !.proc[p] = [pc |-> "lookup", url |-> url, id |-> 0,
                                              calls |-> @.calls + 1]]
        /\ UNCHANGED Others

\* if let Some(&id) = self.url_dict.get(url) { id } else { .. }
RaceLookup ==
    \E p \in DOMAIN race.proc :
        LET c == race.comp[InstanceOf(p)]
            me == race.proc[p]
        IN /\ me.pc = "lookup"
           /\ race' = IF MapHas(c.url_dict, me.url)
                      THEN [race EXCEPT !.proc[p].pc = "idle",
                                        !.proc[p].id = MapGet(c.url_dict, me.url)]
                      ELSE [race EXCEPT !.proc[p].pc = "read"]
           /\ UNCHANGED Others

\* let id = self.next_url_id;
RaceRead ==
    \E p \in DOMAIN race.proc :
        /\ race.proc[p].pc = "read"
        /\ race' = [race EXCEPT !.proc[p].pc = "insert",
                                !.proc[p].id = race.comp[InstanceOf(p)].next_url_id]
        /\ UNCHANGED Others

\* self.url_dict.insert(url.to_string(), id);
RaceInsert ==
    \E p \in DOMAIN race.proc :
        /\ race.proc[p].pc = "insert"
        /\ race' = [race EXCEPT !.proc[p].pc = "increment",
                                !.comp[InstanceOf(p)].url_dict =
                                    MapInsert(@, race.proc[p].url, race.proc[p].id)]
        /\ UNCHANGED Others

\* self.next_url_id += 1; and the return of id
RaceIncrement ==
    \E p \in DOMAIN race.proc :
        /\ race.proc[p].pc = "increment"
        /\ race' = [race EXCEPT !.proc[p].pc = "idle",
                                !.comp[InstanceOf(p)] = BumpU16(@, "next_url_id", checks)]
        /\ UNCHANGED Others

NextRace == RaceCall \/ RaceLookup \/ RaceRead \/ RaceInsert \/ RaceIncrement

SpecRace == InitRace /\ [][NextRace]_vars

\* Two distinct values of the URL dictionary of an instance hold one code.
SharedCode(c) == ~Injective(c.url_dict)

SerialCallsSafe ==
    (race.shared /\ \E p \in DOMAIN race.proc : race.proc[p].calls = 0)
        => ~SharedCode(race.comp[1])

====
